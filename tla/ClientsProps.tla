---------------------------- MODULE ClientsProps ----------------------------
(* Properties of the clients of the C API.                                 *)
EXTENDS Clients

Places ==
  {"start", "handle", "compile", "compiled", "write", "written", "refused", "decode", "finally",
   "copy", "copied", "read", "dump", "output", "done"}

(* Type correctness of the state of tex_core_txc1.c, of the bindings and   *)
(* of main.c: the read loop of main.c never fills past its capacity, and   *)
(* the decoders of wire.ts and WireDecoder.kt never pass the payload.      *)
TypeOK ==
  /\ client \in {"ES", "JNI", "SWIFT", "CLI"} /\ mode \in Members(Modes)
  /\ pc \in Places /\ starved \in BOOLEAN /\ given \in Members(Modes) \cup {""}
  /\ heap \subseteq {"SOURCE", "HANDLE", "TREE", "DATA", "ELEMENTS", "STREAM", "BUFFER", "DUMP"}
  /\ Len(tree) + Len(error) <= 1
  /\ capacity \in 0 .. SizeMax /\ position \in Nat
  /\ reader.position \in 0 .. position /\ reader.decoded \in Nat
  /\ index \in Nat \ {0} /\ exit \in -1 .. 2
  /\ left \in 0 .. MaxInput /\ used \in 0 .. room /\ room \in 0 .. RoomMax /\ broken \in BOOLEAN

(* What comes out of a binding is what the engine answered, in the mode    *)
(* its caller asked for: the tree node by node and field by field, or the  *)
(* error with its status, range and message.  The writer of tex_core_txc1.c*)
(* and the readers of wire.ts and WireDecoder.kt agree on the layout, and  *)
(* the traversals on the order.                                            *)
Answered ==
  IF tree # << >> THEN [kind |-> "TREE", root |-> Copied(tree[1])] ELSE ErrorOf(error[1])

AnswerCarried ==
  pc = "done" /\ result.kind \in {"TREE", "ERROR"} => given = mode /\ result = Answered

(* A call of a binding ends with the engine's answer unless memory ran     *)
(* out: the refusal of the bridge for a payload that does not match its    *)
(* count, and the protocol errors of the decoders, do not happen.          *)
AnswerGiven ==
  pc = "done" /\ client # "CLI" =>
    \/ result.kind \in {"TREE", "ERROR"}
    \/ result.kind = "FAILED" /\ starved

(* The bridge writes inside the block it allocated, and fills it: what     *)
(* txc1_count counts is what txc1_node writes, and the size of the block   *)
(* does not wrap.                                                          *)
ExactPayload ==
  /\ position <= capacity
  /\ pc = "write" /\ todo = << >> => position = capacity

(* Whatever is refused on the way, in whatever step, a call leaves no      *)
(* block, tree, handle or open file behind (the error paths of bridge.c,   *)
(* document.ts, tex_core_kotlin_jni.c, Document.swift and main.c).         *)
NothingLeaked == pc = "done" => heap = {}

(* What a step reads is still there: the nodes while they are written or   *)
(* dumped, the payload while document.ts decodes it in place or the JNI    *)
(* adapter copies it, the source while the engine compiles it.             *)
NoDangling ==
  /\ pc = "write" => {"TREE", "DATA"} \subseteq heap
  /\ client = "ES" /\ pc = "decode" => {"HANDLE", "DATA"} \subseteq heap
  /\ client = "JNI" /\ pc = "copy" => "DATA" \in heap
  /\ client = "CLI" /\ pc = "compile" => "BUFFER" \in heap
  /\ client = "CLI" /\ pc \in {"dump", "output"} => "TREE" \in heap

(* The command line compiles the whole input: no read of nothing, which is *)
(* what ends the loop of txc_cli_read, comes from a full buffer, and no    *)
(* error of the stream is taken for its end.                               *)
InputWhole == client = "CLI" /\ given # "" => used = input /\ ~broken

(* The mode of the last --mode, and the one file that was named.           *)
ModeAsked ==
  LET asked == {k \in DOMAIN arguments : arguments[k] = "--mode"} IN
    IF asked = {} THEN "DOCUMENT"
    ELSE ModeNames[arguments[1 + CHOOSE k \in asked : \A j \in asked : j <= k]]

Named == {arguments[k] : k \in {k \in DOMAIN arguments :
            arguments[k] \notin Options /\ (k > 1 => arguments[k - 1] # "--mode")}}

ArgumentsHeeded ==
  client = "CLI" /\ given # "" =>
    given = ModeAsked /\ Named = Members(path) /\ Len(path) <= 1

(* Scripts take the exit status for the verdict (main.c:144): 0 is either  *)
(* an answer to --help or --version or a dump written whole of a tree of   *)
(* the whole input, 1 a compile that was made, 2 none that was.            *)
ExitTruthful ==
  client = "CLI" /\ pc = "done" =>
    /\ exit = 0 => \/ given = "" /\ \E k \in DOMAIN arguments : arguments[k] \in Inform
                   \/ /\ tree # << >> /\ result = [kind |-> "DUMP", of |-> tree[1], whole |-> TRUE]
                      /\ used = input /\ ~broken
    /\ exit = 1 <=> given # "" /\ ~(result.kind = "DUMP" /\ result.whole)
    /\ exit = 2 => given = ""

(* Every call ends.  A call is one sequence of statements.                 *)
Terminates == <>(pc = "done")

(* The engine's answer reaches the caller of a binding as it was given,    *)
(* through a payload that is as long as its block.                         *)
AnswerFaithful == TypeOK /\ AnswerCarried /\ AnswerGiven /\ ExactPayload

(* Blocks live as long as they are read, and no longer than their call.    *)
BlocksKept == NothingLeaked /\ NoDangling

(* The command line does what its arguments say, and its exit status tells *)
(* what became of it.                                                      *)
CommandTruthful == ArgumentsHeeded /\ ExitTruthful
=============================================================================
