------------------------------ MODULE Cmdline ------------------------------
(***************************************************************************)
(* The rewriting of the source QEMU's command line for the destination     *)
(* (internal/migration/destspawn.go).  An argument is a flag or a value; a *)
(* value is the set of its clauses that the rewriting looks at:            *)
(*   "fd"      fd=, fds=, vhostfd= or vhostfds=                            *)
(*   "srcDir"  a path below the source's sandbox directory, "dstDir" below *)
(*             the destination's;  "srcKey", "dstKey": sandbox-<id>        *)
(*   "image"   mem-path= of an nvdimm image below a root of Kata's, "copy" *)
(*             of its writable copy, "shm" and "stray" of any other file   *)
(*   "ro"      readonly=on or readonly=true                                *)
(*   "tap", "ifname", "script", "defer"  as on the command line            *)
(***************************************************************************)
EXTENDS Naturals, Sequences

CONSTANT CommandLines   \* the command lines that are explored

Flag(f)  == [flag |-> f, keys |-> {}]
Value(k) == [flag |-> "", keys |-> k]

Has(args, key) == \E i \in DOMAIN args : key \in args[i].keys

\* findSrcSandboxDir and extractNvdimmPath: every argument of one QEMU names
\* the same sandbox, so that the first match is as good as any.
findSrcSandboxDir(args) == Has(args, "srcDir")
extractNvdimmPath(args) == Has(args, "image")

stripFDKeys(v) == [v EXCEPT !.keys = @ \ {"fd"}]

tapKeys(v) ==
  IF "tap" \in v.keys THEN [v EXCEPT !.keys = @ \cup {"ifname", "script"}] ELSE v

\* The part of the loop that is reached by an argument without a case of its own.
substitute(args, a) ==
  LET renamed(k) ==
        CASE k = "srcDir" /\ findSrcSandboxDir(args) -> "dstDir"
          [] k = "srcKey" /\ findSrcSandboxDir(args) -> "dstKey"
          [] k = "image" /\ extractNvdimmPath(args) -> "copy"
          [] OTHER -> k
  IN [a EXCEPT !.keys = {renamed(k) : k \in @ \ {"ro"}}]

\* Mutant: -incoming is dropped and its address stays behind.
skipsNextNotIncoming(args, i) ==
  \/ args[i].flag \in {"-netdev", "-device"}
  \/ args[i].flag = "-qmp" /\ i < Len(args) /\ "fd" \in args[i + 1].keys

\* The argument at i sets skipNext.
skipsNext(args, i) ==
  \/ args[i].flag \in {"-incoming", "-netdev", "-device"}
  \/ args[i].flag = "-qmp" /\ i < Len(args) /\ "fd" \in args[i + 1].keys

\* What the iteration for the argument at i appends to the result.
appends(args, i) ==
  LET a == args[i] IN
  CASE a.flag \in {"-daemonize", "-incoming"} -> <<>>
    [] a.flag = "-qmp" -> IF skipsNext(args, i) THEN <<>> ELSE <<a>>
    [] a.flag \in {"-netdev", "-device"} /\ i = Len(args) -> <<>>
    [] a.flag = "-netdev" /\ i < Len(args) -> <<a, tapKeys(stripFDKeys(args[i + 1]))>>
    [] a.flag = "-device" /\ i < Len(args) -> <<a, stripFDKeys(args[i + 1])>>
    [] OTHER -> <<substitute(args, a)>>

\* The body of the loop, for the argument at i.
iteration(args, i, loop) ==
  IF loop.skipNext
  THEN [loop EXCEPT !.skipNext = FALSE]
  ELSE [out |-> loop.out \o appends(args, i), skipNext |-> skipsNext(args, i)]

\* The variables of the loop after each of the arguments.
iterated(args) ==
  LET loop[i \in 0 .. Len(args)] ==
        IF i = 0 THEN [out |-> <<>>, skipNext |-> FALSE] ELSE iteration(args, i, loop[i - 1])
  IN loop

\* args is the command line behind argv[0], for which the caller has its own.
transformCmdline(args) ==
  iterated(args)[Len(args)].out \o <<Flag("-incoming"), Value({"defer"})>>

-----------------------------------------------------------------------------
(* Command lines as Kata writes them: options, each with its value if any.  *)
(* Descriptors are passed to -qmp, -netdev and -device only, and the values *)
(* of the last two name no file of the sandbox.                             *)

Options ==
  {<<Flag("-daemonize")>>, <<Flag("-nographic")>>}
  \cup {<<Flag("-incoming"), Value({})>>}
  \cup {<<Flag("-qmp"), Value(k)>> : k \in {{"fd"}, {"srcDir"}}}
  \cup {<<Flag("-netdev"), Value({"tap"} \cup k)>> : k \in SUBSET {"fd", "ifname", "script"}}
  \cup {<<Flag("-device"), Value(k)>> : k \in SUBSET {"fd"}}
  \cup {<<Flag("-object"), Value(k)>> : k \in {{"image", "ro"}, {"shm"}, {"stray", "ro"}}}
  \cup {<<Flag("-chardev"), Value(k)>> : k \in {{"srcDir"}, {"srcDir", "srcKey"}}}

ASSUME CommandLinesAssumption == CommandLines \subseteq Seq(Options)

\* The arguments of the options, in their order.
Arguments(options) ==
  LET upto[i \in 0 .. Len(options)] == IF i = 0 THEN <<>> ELSE upto[i - 1] \o options[i]
  IN upto[Len(options)]

kept(o) ==
  /\ o[1].flag \notin {"-daemonize", "-incoming"}
  /\ o[1].flag = "-qmp" => "fd" \notin o[2].keys

Flags(args) == [i \in DOMAIN args |-> args[i].flag]

\* Nothing of the source node is left in the argument; the copied image is writable; a
\* tap has a name and no script.
Clean(a) ==
  /\ a.keys \cap {"fd", "srcDir", "srcKey", "image"} = {}
  /\ "copy" \in a.keys => "ro" \notin a.keys
  /\ "tap" \in a.keys => {"ifname", "script"} \subseteq a.keys

\* What a command line must look like on the destination: the options that mean something
\* there, in their order, each of their arguments clean, and at the end the one -incoming,
\* deferred.
ReplaysCleanly(options) ==
  LET out == transformCmdline(Arguments(options))
  IN /\ Flags(out) = Flags(Arguments([i \in DOMAIN options |-> IF kept(options[i]) THEN options[i] ELSE <<>>]))
                       \o <<"-incoming", "">>
     /\ out[Len(out)].keys = {"defer"}
     /\ \A i \in DOMAIN out : Clean(out[i])

AllReplayCleanly == \A options \in CommandLines : ReplaysCleanly(options)
=============================================================================
