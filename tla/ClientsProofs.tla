--------------------------- MODULE ClientsProofs ---------------------------
(***************************************************************************)
(* Proofs about the clients, for every set of trees and errors, every      *)
(* size, every input and every list of arguments.  Which blocks are held   *)
(* is a function of the place in the call, up to the blocks an empty       *)
(* source or standard input does without; what the command line has read   *)
(* and what is left make up the input; and the nodes go through a payload  *)
(* in one order, which the count, the writer and the decoders agree on.    *)
(***************************************************************************)
EXTENDS ClientsProps, WellFoundedInduction, SequenceTheorems, TLAPS

NoAnswer == tree = << >> /\ error = << >>
Given    == IF tree # << >> THEN {"TREE"} ELSE {}

(* What the WASM binding holds, apart from a source.                       *)
HeldES ==
  client = "ES" =>
    LET held == heap \ {"SOURCE"} IN
      /\ pc \in {"start", "handle", "compile", "compiled", "write", "written", "refused", "decode",
                 "finally", "done"}
      /\ pc \in {"start", "handle"} => held = {}
      /\ pc \in {"compile", "refused"} => held = {"HANDLE"}
      /\ pc = "compiled" => held = {"HANDLE"} \cup Given
      /\ pc = "write" => held = {"HANDLE", "TREE", "DATA"}
      /\ pc \in {"written", "decode"} => held = {"HANDLE", "DATA"}
      /\ pc = "finally" => held \in {{}, {"HANDLE", "DATA"}}
      /\ pc = "done" => heap = {}
      /\ pc = "start" => heap = {}

(* The JVM adapter, apart from the elements of the array.                  *)
HeldJNI ==
  client = "JNI" =>
    LET held == heap \ {"ELEMENTS"} IN
      /\ pc \in {"start", "compile", "compiled", "write", "written", "refused", "copy", "copied",
                 "decode", "done"}
      /\ pc \in {"compile", "refused"} => held = {}
      /\ pc = "compiled" => held = Given
      /\ pc = "write" => held = {"TREE", "DATA"}
      /\ pc = "written" => held = {"DATA"}
      /\ pc = "copy" => heap = {"DATA"}
      /\ pc \in {"start", "copied", "decode", "done"} => heap = {}

HeldSwift ==
  client = "SWIFT" =>
    /\ pc \in {"start", "compiled", "done"}
    /\ pc = "compiled" => heap = Given
    /\ pc \in {"start", "done"} => heap = {}

Buffer == IF room > 0 THEN {"BUFFER"} ELSE {}

HeldCLI ==
  client = "CLI" =>
    /\ pc \in {"start", "read", "compile", "compiled", "dump", "output", "done"}
    /\ pc = "read" => heap \ {"STREAM"} = Buffer
    /\ pc = "compile" => heap = {"BUFFER"}
    /\ pc = "compiled" => heap = {"BUFFER"} \cup Given
    /\ pc = "dump" => heap = {"TREE"}
    /\ pc = "output" => heap = {"TREE", "DUMP"}
    /\ pc \in {"start", "done"} => heap = {}

(* Before the compile there is no answer, after it there are not two.      *)
Asked ==
  /\ client \in {"ES", "JNI", "SWIFT", "CLI"}
  /\ tree = << >> \/ error = << >>
  /\ pc \in {"start", "handle", "compile", "read"} => NoAnswer
  /\ client = "CLI" /\ pc \in {"dump", "output"} => tree # << >>

Loop ==
  /\ left \in Nat /\ used \in Nat /\ room \in Nat /\ input \in Nat
  /\ pc = "start" => used = 0 /\ room = 0
  /\ pc = "read" => used + left = input
  /\ client = "CLI" /\ pc = "compile" => left = 0 /\ used = input /\ ~broken

(* The mode is given to the engine when all of the input is there.         *)
GivenLate ==
  client = "CLI" =>
    /\ pc \in {"start", "read", "compile"} => given = ""
    /\ given # "" => used = input /\ ~broken

Held == HeldES /\ HeldJNI /\ HeldSwift /\ HeldCLI

IInv == Held /\ Asked /\ Loop

-----------------------------------------------------------------------------
LEMMA Start == Init => IInv
<1> SUFFICES ASSUME Init PROVE IInv OBVIOUS
<1>1. /\ pc = "start" /\ heap = {} /\ given = "" /\ tree = << >> /\ error = << >>
      /\ client \in {"ES", "JNI", "SWIFT", "CLI"}
  BY DEF Init
<1>2. input = 0 /\ left = 0 /\ used = 0 /\ room = 0
  BY DEF Init, CommandInit
<1>3. Held /\ Asked
  BY <1>1 DEF Held, HeldES, HeldJNI, HeldSwift, HeldCLI, Given, Asked, NoAnswer
<1>4. Loop
  BY <1>1, <1>2 DEF Loop
<1> QED BY <1>3, <1>4 DEF IInv

(* A step of the transport or of a decoder leaves the command line alone.  *)
LEMMA BridgeHeld ==
  ASSUME IInv, client \in {"ES", "JNI"}, Bridge
  PROVE  Held' /\ Asked'
<1>1. CASE WriteHeader
  BY <1>1 DEF WriteHeader, Refused, IInv, Held, HeldES, HeldJNI, HeldSwift, HeldCLI, Given, Asked, NoAnswer
<1>2. CASE WriteNode
  BY <1>2 DEF WriteNode, engineVars, IInv, Held, HeldES, HeldJNI, HeldSwift, HeldCLI, Given, Asked, NoAnswer
<1>3. CASE WriteEnd
  BY <1>3 DEF WriteEnd, IInv, Held, HeldES, HeldJNI, HeldSwift, HeldCLI, Given, Asked, NoAnswer
<1>4. CASE WriteError
  BY <1>4 DEF WriteError, Refused, IInv, Held, HeldES, HeldJNI, HeldSwift, HeldCLI, Given, Asked, NoAnswer
<1> QED BY <1>1, <1>2, <1>3, <1>4 DEF Bridge

(* A decoder holds its payload and the nodes it has made.                  *)
LEMMA DecodeHeld ==
  ASSUME IInv, Decode
  PROVE  Held' /\ Asked'
<1> USE DEF Give, Received, IInv, Held, HeldES, HeldJNI, HeldSwift, HeldCLI, Given, Asked, NoAnswer
<1>1. CASE DecodeError BY <1>1 DEF DecodeError
<1>2. CASE DecodeRoot  BY <1>2 DEF DecodeRoot
<1>3. CASE DecodeChild BY <1>3 DEF DecodeChild
<1>4. CASE DecodeUp    BY <1>4 DEF DecodeUp
<1> QED BY <1>1, <1>2, <1>3, <1>4 DEF Decode

(* So does every step of a binding hold what its place says.               *)
LEMMA BindingHeld ==
  ASSUME IInv, Binding
  PROVE  Held' /\ Asked'
<1>1. CASE BridgeCompile
  BY <1>1 DEF BridgeCompile, EngineCompile, IInv, Held, HeldES, HeldJNI, HeldSwift, HeldCLI, Given, Asked, NoAnswer
<1>2. CASE client \in {"ES", "JNI"} /\ Bridge
  BY <1>2, BridgeHeld
<1>3. CASE Decode
  BY <1>3, DecodeHeld
<1>4. CASE TakeSource \/ AllocateHandle \/ DropHandle \/ Finally
  <2> USE DEF IInv, Held, HeldES, HeldJNI, HeldSwift, HeldCLI, Given, Asked, NoAnswer
  <2>1. CASE TakeSource     BY <2>1 DEF TakeSource
  <2>2. CASE AllocateHandle BY <2>2 DEF AllocateHandle
  <2>3. CASE DropHandle     BY <2>3 DEF DropHandle
  <2>4. CASE Finally        BY <2>4 DEF Finally
  <2> QED BY <1>4, <2>1, <2>2, <2>3, <2>4
<1>5. CASE TakeElements \/ ReleaseElements \/ CopyPayload
  <2> USE DEF IInv, Held, HeldES, HeldJNI, HeldSwift, HeldCLI, Given, Asked, NoAnswer
  <2>1. CASE TakeElements    BY <2>1 DEF TakeElements
  <2>2. CASE ReleaseElements BY <2>2 DEF ReleaseElements
  <2>3. CASE CopyPayload     BY <2>3 DEF CopyPayload
  <2> QED BY <1>5, <2>1, <2>2, <2>3
<1>6. CASE SwiftCompile \/ SwiftCopy
  BY <1>6 DEF SwiftCompile, SwiftCopy, EngineCompile, IInv, Held, HeldES, HeldJNI, HeldSwift, HeldCLI, Given,
    Asked, NoAnswer
<1> QED BY <1>1, <1>2, <1>3, <1>4, <1>5, <1>6 DEF Binding

(* The places of a binding that are places of the command line too come    *)
(* with no claim about the loop.                                           *)
LEMMA BindingLoop ==
  ASSUME IInv, Binding, UNCHANGED commandVars
  PROVE  Loop'
<1>1. client # "CLI" /\ client' = client /\ pc' \notin {"start", "read"}
  BY DEF Binding, BridgeCompile, Bridge, WriteHeader, WriteNode, WriteEnd, WriteError, Refused, engineVars,
    Decode, DecodeError, DecodeRoot, DecodeChild, DecodeUp, Give, Received,
    TakeSource, AllocateHandle, DropHandle, Finally, TakeElements, ReleaseElements, CopyPayload,
    SwiftCompile, SwiftCopy, IInv, Held, HeldCLI, Asked
<1> QED BY <1>1 DEF commandVars, IInv, Loop

-----------------------------------------------------------------------------
(* The command line.                                                       *)
LEMMA ParseSteps ==
  ASSUME IInv, NextArgument \/ OpenInput
  PROVE  IInv'
<1> USE CommandLineAssumption DEF IInv, Held, HeldES, HeldJNI, HeldSwift, HeldCLI, Buffer, Given, Asked, NoAnswer, Loop
<1>1. CASE NextArgument
  BY <1>1 DEF NextArgument, Parsing, InformOption, ModeOption, FileArgument, UnknownOption, Exit
<1>2. CASE OpenInput
  <2>1. CASE pc' = "read"
    <3>1. client = "CLI" /\ pc = "start" /\ UNCHANGED <<client, given, tree, error, used, room>>
      BY <1>2 DEF OpenInput
    <3>2. PICK n \in 0 .. MaxInput : input' = n /\ left' = n
      BY <1>2, <2>1 DEF OpenInput, Exit
    <3>3. heap' \in {heap, heap \cup {"STREAM"}}
      BY <1>2, <2>1 DEF OpenInput, Exit
    <3> QED BY <2>1, <3>1, <3>2, <3>3
  <2>2. CASE pc' # "read"
    BY <1>2, <2>2 DEF OpenInput, Exit
  <2> QED BY <2>1, <2>2
<1> QED BY <1>1, <1>2

(* The buffer: a read that gives nothing is at the end of the input, for   *)
(* it has the room.                                                        *)
LEMMA ReadSteps ==
  ASSUME IInv, GrowBuffer \/ ReadChunk
  PROVE  IInv'
<1> USE CommandLineAssumption DEF IInv, Held, HeldES, HeldJNI, HeldSwift, HeldCLI, Buffer, Given, Asked, NoAnswer, Loop
<1>1. CASE GrowBuffer
  BY <1>1 DEF GrowBuffer, Doubles, Reading, ReadFailed, Exit, Short
<1>2. CASE ReadChunk
  <2>1. PICK n \in 0 .. left :
          /\ n <= room - used /\ Got(n)
          /\ \/ n \in {left, room - used} /\ UNCHANGED broken
             \/ n < room - used /\ broken' = TRUE
          /\ IF n = 0 THEN EndOfInput ELSE UNCHANGED <<pc, heap, exit>>
    BY <1>2 DEF ReadChunk
  <2>2. room - used > 0 /\ room > 0
    BY <1>2 DEF ReadChunk, Short
  <2>3. CASE n = 0
    BY <1>2, <2>1, <2>2, <2>3 DEF ReadChunk, Reading, Got, EndOfInput, ReadFailed, Exit
  <2>4. CASE n # 0
    BY <1>2, <2>1, <2>4 DEF ReadChunk, Reading, Got
  <2> QED BY <2>3, <2>4
<1> QED BY <1>1, <1>2

(* The steps of the command line after its input is read.                  *)
LEMMA AnswerSteps ==
  ASSUME IInv, CommandCompile \/ FreeSource \/ MakeDump \/ Output
  PROVE  IInv'
<1> USE DEF IInv, Held, HeldES, HeldJNI, HeldSwift, HeldCLI, Buffer, Given, Asked, NoAnswer, Loop
<1>1. CASE CommandCompile BY <1>1 DEF CommandCompile, EngineCompile, commandVars
<1>2. CASE FreeSource     BY <1>2 DEF FreeSource, Exit
<1>3. CASE MakeDump       BY <1>3 DEF MakeDump, Exit
<1>4. CASE Output         BY <1>4 DEF Output, Exit
<1> QED BY <1>1, <1>2, <1>3, <1>4

(* Every step of a client keeps the blocks it says it holds.               *)
LEMMA Step == IInv /\ [Next]_vars => IInv'
<1> SUFFICES ASSUME IInv, [Next]_vars PROVE IInv' OBVIOUS
<1>1. CASE Binding /\ UNCHANGED commandVars
  BY <1>1, BindingHeld, BindingLoop DEF IInv
<1>2. CASE Command
  BY <1>2, ParseSteps, ReadSteps, AnswerSteps DEF Command
<1>3. CASE UNCHANGED vars
  BY <1>3 DEF vars, engineVars, commandVars, IInv, Held, HeldES, HeldJNI, HeldSwift, HeldCLI, Buffer, Given, Asked,
    NoAnswer, Loop
<1> QED BY <1>1, <1>2, <1>3 DEF Next, Done

(* The invariant holds in every state of every call.                       *)
THEOREM ClientsInvariance == Spec => []IInv
BY Start, Step, PTL DEF Spec

-----------------------------------------------------------------------------
(* Whatever fails on the way, nothing is left behind: no block of          *)
(* document.ts, bridge.c or the JNI adapter, no tree, no open file.        *)
THEOREM NoLeaks == Spec => []NothingLeaked
<1>1. IInv => NothingLeaked
  BY DEF IInv, Held, HeldES, HeldJNI, HeldSwift, HeldCLI, Asked, NothingLeaked
<1> QED BY <1>1, ClientsInvariance, PTL

(* What a step reads is still held: the tree while it is written, the      *)
(* payload while it is decoded in place or copied, the source.             *)
THEOREM NothingDangles == Spec => []NoDangling
<1>1. IInv => NoDangling
  BY DEF IInv, Held, HeldES, HeldJNI, HeldSwift, HeldCLI, Asked, NoDangling
<1> QED BY <1>1, ClientsInvariance, PTL

(* The engine is asked only when the input is whole, after every step.     *)
LEMMA LateStep == IInv /\ GivenLate /\ [Next]_vars => GivenLate'
<1> SUFFICES ASSUME IInv, GivenLate, [Next]_vars, client' = "CLI"
             PROVE  GivenLate'
  BY DEF GivenLate
<1>1. CASE Binding /\ UNCHANGED commandVars
  <2>1. client # "CLI" /\ client' = client
    BY <1>1 DEF Binding, BridgeCompile, Bridge, WriteHeader, WriteNode, WriteEnd, WriteError, Refused, engineVars,
      Decode, DecodeError, DecodeRoot, DecodeChild, DecodeUp, Give, Received,
      TakeSource, AllocateHandle, DropHandle, Finally, TakeElements, ReleaseElements, CopyPayload,
      SwiftCompile, SwiftCopy, IInv, Held, HeldCLI, Asked
  <2> QED BY <2>1
<1>2. CASE NextArgument \/ OpenInput \/ GrowBuffer \/ ReadChunk
  <2>1. client = "CLI" /\ pc \in {"start", "read"} /\ given' = given
    BY <1>2 DEF NextArgument, Parsing, OpenInput, GrowBuffer, ReadChunk, Reading
  <2> QED BY <2>1 DEF GivenLate
<1>3. CASE CommandCompile
  <2>1. client = "CLI" /\ pc = "compile" /\ pc' = "compiled" /\ used' = used /\ input' = input /\ broken' = broken
    BY <1>3 DEF CommandCompile, commandVars
  <2>2. used = input /\ ~broken
    BY <2>1 DEF IInv, Loop
  <2> QED BY <2>1, <2>2 DEF GivenLate
<1>4. CASE FreeSource \/ MakeDump \/ Output
  <2>1. /\ client = "CLI" /\ given' = given /\ used' = used /\ input' = input /\ broken' = broken
        /\ pc' \in {"dump", "output", "done"}
    BY <1>4 DEF FreeSource, MakeDump, Output, Exit
  <2> QED BY <2>1 DEF GivenLate
<1>5. CASE UNCHANGED vars
  BY <1>5 DEF vars, engineVars, commandVars, GivenLate
<1> QED BY <1>1, <1>2, <1>3, <1>4, <1>5 DEF Next, Command, Done

(* The same in every state.                                                *)
LEMMA AlwaysLate == Spec => []GivenLate
<1>1. Init => GivenLate
  BY DEF Init, GivenLate
<1> QED BY <1>1, LateStep, ClientsInvariance, PTL DEF Spec

(* The command line compiles the whole of an input of any length.          *)
THEOREM InputIsWhole == Spec => []InputWhole
<1>1. GivenLate => InputWhole
  BY DEF GivenLate, InputWhole
<1> QED BY <1>1, AlwaysLate, PTL

(* Blocks live as long as they are read and no longer than their call.     *)
THEOREM BlocksAreKept == Spec => []BlocksKept
BY NoLeaks, NothingDangles, PTL DEF BlocksKept

-----------------------------------------------------------------------------
(***************************************************************************)
(* The arguments: what the first n - 1 of them say, and what became of it. *)
(***************************************************************************)
Word     == STRING
Silent   == given = ""                    (* the engine was not called yet  *)
Asks(k)  == arguments[k] = "--mode"
Names(k) == arguments[k] \notin Options /\ (k > 1 => ~Asks(k - 1))

(* The mode is that of the last --mode so far, whose value is among them,  *)
(* and the one file is the one that was named.                             *)
Heeds(n) ==
  /\ \A k \in 1 .. n - 1 : Asks(k) => k + 1 <= n - 1 /\ arguments[k + 1] \in DOMAIN ModeNames
  /\ (\A k \in 1 .. n - 1 : ~Asks(k)) => mode = "DOCUMENT"
  /\ (\E k \in 1 .. n - 1 : Asks(k)) =>
       \E k \in 1 .. n - 1 :
         /\ Asks(k) /\ mode = ModeNames[arguments[k + 1]]
         /\ \A j \in 1 .. n - 1 : Asks(j) => j <= k
  /\ Len(path) <= 1 /\ Members(path) = {arguments[k] : k \in {j \in 1 .. n - 1 : Names(j)}}

Parsed ==
  client = "CLI" =>
    /\ arguments \in Seq(Word) /\ index \in 1 .. Len(arguments) + 1
    /\ mode \in Members(Modes)
    /\ Heeds(index)
    /\ ~Silent => given = mode
    /\ pc \notin {"start", "done"} \/ ~Silent => index = Len(arguments) + 1

(* What the exit status will be told from.                                 *)
Exited ==
  client = "CLI" =>
    /\ pc # "done" => exit = -1 /\ result.kind = "NONE"
    /\ pc \in {"compiled", "dump", "output"} => ~Silent
    /\ pc = "done" =>
         \/ exit = 0 /\ Silent /\ \E k \in DOMAIN arguments : arguments[k] \in Inform
         \/ exit = 2 /\ Silent
         \/ exit = 1 /\ ~Silent /\ result.kind = "NONE"
         \/ /\ ~Silent /\ tree # << >>
            /\ \E whole \in BOOLEAN :
                 /\ result = [kind |-> "DUMP", of |-> tree[1], whole |-> whole]
                 /\ exit = IF whole THEN 0 ELSE 1

Commanded == Parsed /\ Exited

(* The modes have names.                                                   *)
LEMMA ModesNamed ==
  /\ Members(Modes) = {"DOCUMENT", "MATH_INLINE", "MATH_DISPLAY"} /\ "" \notin Members(Modes)
  /\ \A word \in DOMAIN ModeNames : ModeNames[word] \in Members(Modes)
  /\ "--mode" \notin DOMAIN ModeNames
<1>1. Members(Modes) = {"DOCUMENT", "MATH_INLINE", "MATH_DISPLAY"}
  <2>1. DOMAIN Modes = 1 .. 3 /\ Modes[1] = "DOCUMENT" /\ Modes[2] = "MATH_INLINE"
        /\ Modes[3] = "MATH_DISPLAY"
    BY DEF Modes
  <2>2. \A k : k \in 1 .. 3 <=> k = 1 \/ k = 2 \/ k = 3 OBVIOUS
  <2> QED BY <2>1, <2>2 DEF Members
<1> QED BY <1>1 DEF ModeNames

(* Before the first argument nothing was asked for.                        *)
LEMMA CommandedStart == Init => Commanded
<1> SUFFICES ASSUME Init, client = "CLI" PROVE Commanded BY DEF Commanded, Parsed, Exited
<1>1. PICK words \in Words : CommandInit(words) BY DEF Init
<1>2. /\ arguments = words /\ index = 1 /\ path = << >> /\ exit = -1
      /\ mode = "DOCUMENT" /\ pc = "start" /\ Silent /\ result.kind = "NONE"
  BY <1>1 DEF Init, CommandInit, NoResult, Silent
<1>3. arguments \in Seq(Word) BY <1>2, CommandLineAssumption DEF Word
<1>4. 1 .. index - 1 = {} BY <1>2
<1>5. Members(path) = {} BY <1>2 DEF Members
<1>6. Heeds(index) BY <1>2, <1>4, <1>5 DEF Heeds
<1>7. index \in 1 .. Len(arguments) + 1 BY <1>2, <1>3
<1> QED BY <1>2, <1>3, <1>6, <1>7, ModesNamed DEF Commanded, Parsed, Exited

(* A step of a binding says nothing of the command line.                   *)
LEMMA BindingApart ==
  ASSUME IInv, Binding PROVE client # "CLI" /\ client' = client
BY DEF Binding, BridgeCompile, Bridge, WriteHeader, WriteNode, WriteEnd, WriteError, Refused, engineVars,
  Decode, DecodeError, DecodeRoot, DecodeChild, DecodeUp, Give, Received,
  TakeSource, AllocateHandle, DropHandle, Finally, TakeElements, ReleaseElements, CopyPayload,
  SwiftCompile, SwiftCopy, IInv, Held, HeldCLI, Asked

(* One argument more.                                                      *)
LEMMA ArgumentHeeded ==
  ASSUME Commanded, NextArgument PROVE Commanded'
<1> DEFINE n == index
<1>1. /\ client = "CLI" /\ pc = "start" /\ n <= Len(arguments)
      /\ client' = client /\ arguments' = arguments /\ given' = given /\ result' = result
      /\ (Silent' <=> Silent)
      /\ InformOption \/ ModeOption \/ FileArgument \/ UnknownOption
  BY DEF NextArgument, Parsing, Silent
<1>2. /\ arguments \in Seq(Word) /\ n \in 1 .. Len(arguments) + 1 /\ Heeds(n)
      /\ mode \in Members(Modes)
      /\ ~Silent => n = Len(arguments) + 1
      /\ exit = -1 /\ result.kind = "NONE"
  BY <1>1 DEF Commanded, Parsed, Exited
<1>3. n \in Nat /\ n \in 1 .. Len(arguments) /\ n \in DOMAIN arguments
      /\ Len(arguments) \in Nat
  BY <1>1, <1>2
<1>4. Silent BY <1>1, <1>2
<1> DEFINE Answers == exit' = 0 /\ arguments[n] \in Inform
<1>5. ASSUME UNCHANGED <<mode, index, path>>, pc' = "done", exit' = 2 \/ Answers
      PROVE  Commanded'
  <2>1. Parsed' BY <1>1, <1>2, <1>4, <1>5 DEF Parsed, Heeds, Asks, Names
  <2>2. Exited' BY <1>1, <1>3, <1>4, <1>5 DEF Exited
  <2> QED BY <2>1, <2>2 DEF Commanded
<1> HIDE DEF Answers
<1>6. CASE /\ Asks(n) /\ n < Len(arguments) /\ arguments[n + 1] \in DOMAIN ModeNames
           /\ mode' = ModeNames[arguments[n + 1]] /\ index' = n + 2
           /\ UNCHANGED <<path, pc, exit>>
  <2>1. /\ index' - 1 = n + 1 /\ index' \in 1 .. Len(arguments) + 1
        /\ \A k \in 1 .. n + 1 : k \in 1 .. n - 1 \/ k = n \/ k = n + 1
        /\ n \in 1 .. n + 1 /\ \A k \in 1 .. n - 1 : k \in 1 .. n + 1 /\ k <= n /\ k + 1 <= n + 1
        /\ n + 1 > 1 /\ (n + 1) - 1 = n
    BY <1>3, <1>6
  <2>2. ~Asks(n + 1) /\ ~Names(n) /\ ~Names(n + 1)
    BY <1>6, <2>1, ModesNamed DEF Asks, Names, Options
  <2>3. \A k \in 1 .. n + 1 : Asks(k) => k + 1 <= n + 1 /\ arguments[k + 1] \in DOMAIN ModeNames
    BY <1>2, <1>3, <1>6, <2>1, <2>2 DEF Heeds
  <2>4. Asks(n) /\ \A j \in 1 .. n + 1 : Asks(j) => j <= n
    BY <1>3, <1>6, <2>1, <2>2
  <2>5. {j \in 1 .. n + 1 : Names(j)} = {j \in 1 .. n - 1 : Names(j)} BY <2>1, <2>2
  <2>6. Members(path) = {arguments[k] : k \in {j \in 1 .. n + 1 : Names(j)}} /\ Len(path) <= 1
    BY <1>2, <2>5 DEF Heeds
  <2>7. Heeds(index)'
    BY <1>1, <1>6, <2>1, <2>3, <2>4, <2>6 DEF Heeds, Asks, Names
  <2>8. mode' \in Members(Modes) BY <1>6, ModesNamed
  <2>9. Parsed' BY <1>1, <1>2, <1>4, <1>6, <2>1, <2>7, <2>8 DEF Parsed
  <2>10. Exited' BY <1>1, <1>2, <1>6 DEF Exited
  <2> QED BY <2>9, <2>10 DEF Commanded
<1>7. CASE /\ arguments[n] \notin Options /\ path = << >> /\ path' = <<arguments[n]>>
           /\ index' = n + 1 /\ UNCHANGED <<mode, pc, exit>>
  <2>1. /\ index' - 1 = n /\ index' \in 1 .. Len(arguments) + 1
        /\ \A k \in 1 .. n : k \in 1 .. n - 1 \/ k = n
        /\ n \in 1 .. n /\ \A k \in 1 .. n - 1 : k \in 1 .. n
        /\ n > 1 => n - 1 \in 1 .. n - 1 /\ ~((n - 1) + 1 <= n - 1)
        /\ \A k \in 1 .. n - 1 : k + 1 <= n - 1 => k + 1 <= n
    BY <1>3, <1>7
  <2>2. ~Asks(n) BY <1>7 DEF Asks, Options
  <2>3. Names(n) BY <1>2, <1>7, <2>1 DEF Names, Heeds
  <2>4. \A k \in 1 .. n - 1 : ~Names(k)
    <3>1. Members(path) = {} BY <1>7 DEF Members
    <3> QED BY <1>2, <3>1 DEF Heeds
  <2>5. {j \in 1 .. n : Names(j)} = {n} BY <2>1, <2>3, <2>4
  <2>6. Members(<<arguments[n]>>) = {arguments[n]} /\ Len(<<arguments[n]>>) = 1
    BY DEF Members
  <2>7. Members(path') = {arguments[k] : k \in {j \in 1 .. n : Names(j)}} /\ Len(path') <= 1
    BY <1>7, <2>5, <2>6
  <2>8. /\ \A k \in 1 .. n : Asks(k) => k + 1 <= n /\ arguments[k + 1] \in DOMAIN ModeNames
        /\ (\A k \in 1 .. n : ~Asks(k)) => mode = "DOCUMENT"
        /\ (\E k \in 1 .. n : Asks(k)) =>
             \E k \in 1 .. n : /\ Asks(k) /\ mode = ModeNames[arguments[k + 1]]
                               /\ \A j \in 1 .. n : Asks(j) => j <= k
    <3>1. \A k \in 1 .. n : Asks(k) => k \in 1 .. n - 1 BY <2>1, <2>2
    <3> QED BY <1>2, <2>1, <3>1 DEF Heeds
  <2>9. Heeds(index)'
    BY <1>1, <1>7, <2>1, <2>7, <2>8 DEF Heeds, Asks, Names, Members
  <2>10. Parsed' BY <1>1, <1>2, <1>4, <1>7, <2>1, <2>9 DEF Parsed
  <2>11. Exited' BY <1>1, <1>2, <1>7 DEF Exited
  <2> QED BY <2>10, <2>11 DEF Commanded
<1>8. CASE InformOption
  <2>1. UNCHANGED <<mode, index, path>> /\ pc' = "done" /\ Answers
    BY <1>8 DEF InformOption, Exit, Answers
  <2> QED BY <1>5, <2>1
<1>9. CASE ModeOption
  <2>1. CASE n < Len(arguments) /\ arguments[n + 1] \in DOMAIN ModeNames
    BY <1>6, <1>9, <2>1 DEF ModeOption, Asks
  <2>2. CASE ~(n < Len(arguments) /\ arguments[n + 1] \in DOMAIN ModeNames)
    <3>1. UNCHANGED <<mode, index, path>> /\ pc' = "done" /\ exit' = 2
      BY <1>9, <2>2 DEF ModeOption, Exit
    <3> QED BY <1>5, <3>1
  <2> QED BY <2>1, <2>2
<1>10. CASE FileArgument
  <2>1. CASE path = << >>
    <3>1. arguments[n] \notin Options /\ path' = <<arguments[n]>> /\ index' = n + 1
          /\ UNCHANGED <<mode, pc, exit>>
      BY <1>10, <2>1 DEF FileArgument
    <3> QED BY <1>7, <2>1, <3>1
  <2>2. CASE path # << >>
    <3>1. UNCHANGED <<mode, index, path>> /\ pc' = "done" /\ exit' = 2
      BY <1>10, <2>2 DEF FileArgument, Exit
    <3> QED BY <1>5, <3>1
  <2> QED BY <2>1, <2>2
<1>11. CASE UnknownOption
  <2>1. UNCHANGED <<mode, index, path>> /\ pc' = "done" /\ exit' = 2
    BY <1>11 DEF UnknownOption, Exit
  <2> QED BY <1>5, <2>1
<1> QED BY <1>1, <1>8, <1>9, <1>10, <1>11

(* Each argument, each read and each ending keeps what the arguments say.  *)
LEMMA CommandedStep == IInv /\ GivenLate /\ Commanded /\ [Next]_vars => Commanded'
<1> SUFFICES ASSUME IInv, GivenLate, Commanded, [Next]_vars PROVE Commanded' OBVIOUS
<1>1. CASE Binding /\ UNCHANGED commandVars
  BY <1>1, BindingApart DEF Commanded, Parsed, Exited
<1>2. CASE NextArgument BY <1>2, ArgumentHeeded
<1>3. ASSUME client = "CLI", UNCHANGED <<client, mode, arguments, index, path>>,
             ((Silent' <=> Silent) /\ given' = given) \/ given' = mode,
             pc' \notin {"start", "done"} \/ ~Silent' => index = Len(arguments) + 1
      PROVE  Parsed'
  <2>1. /\ arguments \in Seq(Word) /\ index \in 1 .. Len(arguments) + 1
        /\ mode \in Members(Modes)
        /\ Heeds(index) /\ (~Silent => given = mode)
    BY <1>3 DEF Commanded, Parsed
  <2>2. Heeds(index)' BY <1>3, <2>1 DEF Heeds, Asks, Names
  <2> QED BY <1>3, <2>1, <2>2 DEF Parsed
<1>4. CASE OpenInput
  <2>1. /\ client = "CLI" /\ pc = "start" /\ UNCHANGED <<client, mode, arguments, index, path>>
        /\ given' = given /\ (Silent' <=> Silent) /\ Silent /\ result' = result /\ index > Len(arguments)
        /\ (pc' = "read" /\ exit' = exit) \/ (pc' = "done" /\ exit' = 2)
    BY <1>4 DEF OpenInput, Exit, GivenLate, Silent
  <2>2. index = Len(arguments) + 1 BY <2>1 DEF Commanded, Parsed
  <2>3. Parsed' BY <1>3, <2>1, <2>2
  <2>4. Exited' BY <2>1 DEF Commanded, Exited
  <2> QED BY <2>3, <2>4 DEF Commanded
<1>5. CASE GrowBuffer \/ ReadChunk
  <2>1. /\ client = "CLI" /\ pc = "read" /\ UNCHANGED <<client, mode, arguments, index, path>>
        /\ given' = given /\ (Silent' <=> Silent) /\ Silent /\ result' = result
        /\ (pc' \in {"read", "compile"} /\ exit' = exit) \/ (pc' = "done" /\ exit' = 2)
    BY <1>5 DEF GrowBuffer, ReadChunk, Reading, EndOfInput, ReadFailed, Exit, GivenLate, Silent
  <2>2. index = Len(arguments) + 1 BY <2>1 DEF Commanded, Parsed
  <2>3. Parsed' BY <1>3, <2>1, <2>2
  <2>4. Exited' BY <2>1 DEF Commanded, Exited
  <2> QED BY <2>3, <2>4 DEF Commanded
<1>6. CASE CommandCompile
  <2>1. /\ client = "CLI" /\ pc = "compile" /\ UNCHANGED <<client, mode, arguments, index, path>>
        /\ given' = mode /\ result' = result /\ pc' = "compiled" /\ exit' = exit
    BY <1>6 DEF CommandCompile, EngineCompile, commandVars
  <2>2. index = Len(arguments) + 1 /\ mode \in Members(Modes) BY <2>1 DEF Commanded, Parsed
  <2>3. Parsed' BY <1>3, <2>1, <2>2
  <2>5. ~Silent' BY <2>1, <2>2, ModesNamed DEF Silent
  <2>4. Exited' BY <2>1, <2>5 DEF Commanded, Exited
  <2> QED BY <2>3, <2>4 DEF Commanded
<1>7. CASE FreeSource \/ MakeDump
  <2>1. /\ client = "CLI" /\ pc \in {"compiled", "dump"}
        /\ UNCHANGED <<client, mode, arguments, index, path>>
        /\ given' = given /\ (Silent' <=> Silent) /\ result' = result
        /\ (pc' \in {"dump", "output"} /\ exit' = exit) \/ (pc' = "done" /\ exit' = 1)
    BY <1>7 DEF FreeSource, MakeDump, Exit, Silent
  <2>2. index = Len(arguments) + 1 BY <2>1 DEF Commanded, Parsed
  <2>3. Parsed' BY <1>3, <2>1, <2>2
  <2>4. Exited' BY <2>1 DEF Commanded, Exited
  <2> QED BY <2>3, <2>4 DEF Commanded
<1>8. CASE Output
  <2>1. /\ client = "CLI" /\ pc = "output" /\ pc' = "done"
        /\ UNCHANGED <<client, mode, arguments, index, path>>
        /\ given' = given /\ (Silent' <=> Silent) /\ tree' = tree /\ tree # << >>
    BY <1>8 DEF Output, Exit, IInv, Asked, Silent
  <2>2. PICK written, flushed \in BOOLEAN :
          /\ result' = [kind |-> "DUMP", of |-> tree[1], whole |-> written /\ flushed]
          /\ Exit(IF written /\ flushed THEN 0 ELSE 1)
    BY <1>8 DEF Output
  <2>3. index = Len(arguments) + 1 /\ ~Silent BY <2>1 DEF Commanded, Parsed, Exited
  <2>4. Parsed' BY <1>3, <2>1, <2>3
  <2> DEFINE w == written /\ flushed
  <2>5. w \in BOOLEAN /\ exit' = IF w THEN 0 ELSE 1 BY <2>2 DEF Exit
  <2>6. result' = [kind |-> "DUMP", of |-> tree'[1], whole |-> w] BY <2>1, <2>2
  <2> HIDE DEF w
  <2>7. Exited' BY <2>1, <2>3, <2>5, <2>6 DEF Exited
  <2> QED BY <2>4, <2>7 DEF Commanded
<1>9. CASE UNCHANGED vars
  BY <1>9 DEF vars, engineVars, commandVars, Commanded, Parsed, Exited, Silent, Heeds, Asks, Names
<1> QED BY <1>1, <1>2, <1>4, <1>5, <1>6, <1>7, <1>8, <1>9 DEF Next, Command, Done

(* The command line does what its arguments say, in every state.           *)
LEMMA AlwaysCommanded == Spec => []Commanded
BY CommandedStart, CommandedStep, ClientsInvariance, AlwaysLate, PTL DEF Spec

(* The mode the engine is given is that of the last --mode, and the input  *)
(* is the one file that was named, for any list of arguments.              *)
THEOREM ArgumentsAreHeeded == Spec => []ArgumentsHeeded
<1>1. ASSUME Commanded PROVE ArgumentsHeeded
  <2> SUFFICES ASSUME client = "CLI", ~Silent
               PROVE  given = ModeAsked /\ Named = Members(path) /\ Len(path) <= 1
    BY DEF ArgumentsHeeded, Silent
  <2>1. /\ arguments \in Seq(Word) /\ index = Len(arguments) + 1 /\ Heeds(index) /\ given = mode
    BY <1>1 DEF Commanded, Parsed
  <2> DEFINE D == DOMAIN arguments
             asked == {k \in D : arguments[k] = "--mode"}
  <2>2. 1 .. index - 1 = D BY <2>1
  <2>3. Members(path) = {arguments[k] : k \in {j \in D : Names(j)}} /\ Len(path) <= 1
    BY <2>1, <2>2 DEF Heeds
  <2>4. Named = Members(path) BY <2>3 DEF Named, Names, Asks
  <2>5. CASE asked = {}
    <3>1. mode = "DOCUMENT" BY <2>1, <2>2, <2>5 DEF Heeds, Asks
    <3> QED BY <2>1, <2>3, <2>4, <2>5, <3>1 DEF ModeAsked
  <2>6. CASE asked # {}
    <3>1. PICK k \in asked : /\ mode = ModeNames[arguments[k + 1]] /\ \A j \in asked : j <= k
      BY <2>1, <2>2, <2>6 DEF Heeds, Asks
    <3>2. \A j \in asked : (\A i \in asked : i <= j) => j = k BY <2>1, <3>1
    <3> DEFINE last == CHOOSE j \in asked : \A i \in asked : i <= j
    <3>3. last = k BY <3>1, <3>2
    <3>4. ModeAsked = ModeNames[arguments[1 + last]] BY <2>6 DEF ModeAsked
    <3>5. 1 + k = k + 1 BY <2>1, <3>1
    <3> QED BY <2>1, <2>3, <2>4, <3>1, <3>3, <3>4, <3>5
  <2> QED BY <2>5, <2>6
<1> QED BY <1>1, AlwaysCommanded, PTL

(* The exit status tells what became of the input: 0 is a whole dump of a  *)
(* tree of the whole input or an answer to --help or --version, 1 a compile*)
(* that was made, 2 none that was.                                         *)
THEOREM CommandTold == Spec => []CommandTruthful
<1>1. ASSUME Commanded, GivenLate PROVE ExitTruthful
  <2> SUFFICES ASSUME client = "CLI", pc = "done"
               PROVE  /\ exit = 0 =>
                          \/ Silent /\ \E k \in DOMAIN arguments : arguments[k] \in Inform
                          \/ /\ tree # << >>
                             /\ result = [kind |-> "DUMP", of |-> tree[1], whole |-> TRUE]
                             /\ used = input /\ ~broken
                      /\ exit = 1 <=> ~Silent /\ ~(result.kind = "DUMP" /\ result.whole)
                      /\ exit = 2 => Silent
    BY DEF ExitTruthful, Silent
  <2>1. ~Silent => used = input /\ ~broken BY <1>1 DEF GivenLate, Silent
  <2> QED BY <1>1, <2>1 DEF Commanded, Exited
<1>2. ExitTruthful /\ ArgumentsHeeded => CommandTruthful BY DEF CommandTruthful
<1> QED BY <1>1, <1>2, AlwaysCommanded, AlwaysLate, ArgumentsAreHeeded, PTL

-----------------------------------------------------------------------------
(***************************************************************************)
(* Trees.  The children of a node come after it, so what is defined of a   *)
(* node by what is defined of its children is defined of every node.       *)
(***************************************************************************)
Nodes(t)  == 1 .. Len(t.kids)
Rooted(t) ==
  /\ Len(t.kids) \in Nat \ {0} /\ DOMAIN t.kids = Nodes(t) /\ 1 \in Nodes(t)
  /\ \A i \in Nodes(t) :
       /\ t.kids[i] \in Seq(Nodes(t)) /\ \A k \in 1 .. Len(t.kids[i]) : t.kids[i][k] > i
       /\ t.kind[i] \in Members(Kinds) /\ (t.kind[i] # "HBOX" => t.kids[i] = << >>)
       /\ t.style[i] \in Members(Styles) /\ t.family[i] \in Members(Families)
  /\ t.kind[1] = "HBOX"

LEMMA TreesRooted ==
  ASSUME NEW t \in Trees PROVE Rooted(t)
<1>1. t.kids \in Seq(Seq(Nat)) /\ t.kids # << >> /\ t.kind[1] = "HBOX"
  BY EngineAssumption
<1>2. Len(t.kids) \in Nat /\ Len(t.kids) # 0 /\ DOMAIN t.kids = 1 .. Len(t.kids)  BY <1>1
<1>3. ASSUME NEW i \in Nodes(t)
      PROVE  /\ t.kids[i] \in Seq(Nodes(t)) /\ \A k \in 1 .. Len(t.kids[i]) : t.kids[i][k] > i
             /\ t.kind[i] \in Members(Kinds) /\ (t.kind[i] # "HBOX" => t.kids[i] = << >>)
             /\ t.style[i] \in Members(Styles) /\ t.family[i] \in Members(Families)
  <2>1. i \in DOMAIN t.kids  BY <1>2, <1>3 DEF Nodes
  <2>2. t.kids[i] \in Seq(Nat)  BY <1>1, <1>2, <2>1
  <2> DEFINE s == t.kids[i]
  <2>3. \A k \in DOMAIN s : s[k] \in DOMAIN t.kids /\ s[k] > i
    BY <2>1, EngineAssumption
  <2>4. Len(s) \in Nat /\ DOMAIN s = 1 .. Len(s) /\ s \in [1 .. Len(s) -> Nat]  BY <2>2
  <2>5. \A k \in 1 .. Len(s) : s[k] \in Nodes(t)  BY <1>2, <2>3, <2>4 DEF Nodes
  <2> HIDE DEF s
  <2>6. s \in [1 .. Len(s) -> Nodes(t)]  BY <2>4, <2>5
  <2>7. s \in Seq(Nodes(t))  BY <2>4, <2>6
  <2>8. /\ t.kind[i] \in Members(Kinds) /\ (t.kind[i] # "HBOX" => t.kids[i] = << >>)
        /\ t.style[i] \in Members(Styles) /\ t.family[i] \in Members(Families)
    BY <2>1, EngineAssumption
  <2> QED  BY <2>3, <2>4, <2>7, <2>8 DEF s
<1>4. 1 \in Nodes(t) /\ Len(t.kids) \in Nat \ {0}  BY <1>2 DEF Nodes
<1> HIDE DEF Nodes
<1> QED  BY <1>1, <1>2, <1>3, <1>4 DEF Rooted, Nodes

(* Induction over the naturals, for a set.                                 *)
LEMMA SetInduction ==
  ASSUME NEW S, 0 \in S, \A n \in Nat : n \in S => n + 1 \in S
  PROVE  Nat \subseteq S
<1> DEFINE R == OpToRel(<, Nat)
           T == Nat \ S
<1>1. IsWellFoundedOn(R, Nat)  BY NatLessThanWellFounded, Zenon
<1>2. \A m, n \in Nat : m < n => <<m, n>> \in R  BY DEF OpToRel
<1> HIDE DEF R
<1> SUFFICES ASSUME T # {} PROVE FALSE  OBVIOUS
<1>3. T \subseteq Nat  OBVIOUS
<1> HIDE DEF T
<1>4. PICK x \in T : \A y \in T : ~(<<y, x>> \in R)  BY <1>1, <1>3, WFMin
<1>5. x \in Nat /\ x # 0 /\ x \notin S  BY <1>3, <1>4 DEF T
<1>6. x - 1 \in Nat /\ x - 1 < x /\ (x - 1) + 1 = x  BY <1>5
<1>7. <<x - 1, x>> \in R  BY <1>2, <1>5, <1>6
<1>8. x - 1 \in S  BY <1>4, <1>6, <1>7 DEF T
<1> QED  BY <1>5, <1>6, <1>8

-----------------------------------------------------------------------------
(***************************************************************************)
(* txc1_count: one more than the nodes below the children of a node.       *)
(***************************************************************************)
Sums(f, s) ==
  CHOOSE sum : sum = [k \in 0 .. Len(s) |-> IF k = 0 THEN 1 ELSE sum[k - 1] + f[s[k]]]

Total(f, s) == Sums(f, s)[Len(s)]

Sizing(t, f) == f = [i \in DOMAIN t.kids |-> Total(f, t.kids[i])]

Sizes(t) == CHOOSE f : Sizing(t, f)

LEMMA SumDefined ==
  ASSUME NEW f, NEW S, NEW s \in Seq(S), \A x \in S : f[x] \in Nat
  PROVE  LET a == Sums(f, s) IN
         /\ a[0] = 1 /\ \A k \in 1 .. Len(s) : a[k] = a[k - 1] + f[s[k]]
         /\ \A k \in 0 .. Len(s) : a[k] \in Nat \ {0}
<1> DEFINE n == Len(s)
           Adds(g, m) == [k \in 0 .. m |-> IF k = 0 THEN 1 ELSE g[k - 1] + f[s[k]]]
           I == {m \in Nat : \E g : g = Adds(g, m)}
<1>0. n \in Nat /\ \A k \in 1 .. n : s[k] \in S  OBVIOUS
<1>1. 0 \in I
  <2>1. [k \in 0 .. 0 |-> 1] = Adds([k \in 0 .. 0 |-> 1], 0)  OBVIOUS
  <2> QED  BY <2>1
<1>2. ASSUME NEW m \in Nat, m \in I PROVE m + 1 \in I
  <2>1. PICK g : g = Adds(g, m)  BY <1>2
  <2> DEFINE h == [k \in 0 .. m + 1 |-> IF k = 0 THEN 1 ELSE g[k - 1] + f[s[k]]]
  <2>2. DOMAIN g = 0 .. m /\ \A k \in 0 .. m : g[k] = IF k = 0 THEN 1 ELSE g[k - 1] + f[s[k]]
    BY <2>1
  <2>3. \A k \in 0 .. m : h[k] = g[k]  BY <2>2
  <2>4. \A k \in 0 .. m + 1 : h[k] = IF k = 0 THEN 1 ELSE h[k - 1] + f[s[k]]
    <3> TAKE k \in 0 .. m + 1
    <3>1. CASE k = 0  BY <3>1
    <3>2. CASE k # 0
      <4>1. k - 1 \in 0 .. m  BY <3>2
      <4>2. h[k - 1] = g[k - 1]  BY <2>3, <4>1
      <4>3. h[k] = g[k - 1] + f[s[k]]  BY <3>2
      <4> HIDE DEF h
      <4> QED  BY <3>2, <4>2, <4>3
    <3> QED  BY <3>1, <3>2
  <2>5. h = [k \in 0 .. m + 1 |-> h[k]]  OBVIOUS
  <2> HIDE DEF h
  <2>6. h = Adds(h, m + 1)  BY <2>4, <2>5
  <2> HIDE DEF Adds
  <2> QED  BY <2>6
<1>3. n \in I
  <2> HIDE DEF I
  <2> QED  BY <1>0, <1>1, <1>2, SetInduction
<1> DEFINE a == Sums(f, s)
<1>4. a = Adds(a, n)  BY <1>3 DEF Sums
<1> HIDE DEF a
<1>5. \A k \in 0 .. n : a[k] = IF k = 0 THEN 1 ELSE a[k - 1] + f[s[k]]  BY <1>4
<1> HIDE DEF Adds, I
<1>6. a[0] = 1 /\ \A k \in 1 .. n : a[k] = a[k - 1] + f[s[k]]
  <2>1. 0 \in 0 .. n /\ \A k \in 1 .. n : k \in 0 .. n /\ k # 0  BY <1>0
  <2> QED  BY <1>5, <2>1
<1> DEFINE J == {m \in Nat : m <= n => a[m] \in Nat \ {0}}
<1>7. 0 \in J  BY <1>6
<1>8. ASSUME NEW m \in Nat, m \in J PROVE m + 1 \in J
  <2> SUFFICES ASSUME m + 1 <= n PROVE a[m + 1] \in Nat \ {0}  OBVIOUS
  <2>1. m + 1 \in 1 .. n /\ m <= n /\ (m + 1) - 1 = m  BY <1>0
  <2>2. a[m] \in Nat \ {0} /\ f[s[m + 1]] \in Nat  BY <1>0, <1>8, <2>1
  <2>3. a[m + 1] = a[m] + f[s[m + 1]]  BY <1>6, <2>1
  <2> QED  BY <2>2, <2>3
<1>9. Nat \subseteq J
  <2> HIDE DEF J
  <2> QED  BY <1>7, <1>8, SetInduction
<1>10. \A k \in 0 .. n : a[k] \in Nat \ {0}  BY <1>0, <1>9
<1> QED  BY <1>6, <1>10 DEF a

LEMMA TotalTyped ==
  ASSUME NEW f, NEW S, NEW s \in Seq(S), \A x \in S : f[x] \in Nat
  PROVE  Total(f, s) \in Nat \ {0}
<1>1. Len(s) \in 0 .. Len(s)  OBVIOUS
<1> QED  BY <1>1, SumDefined DEF Total

(* The sum over no node, over one, and over two lists.                     *)
LEMMA TotalEmpty ==
  ASSUME NEW f PROVE Total(f, << >>) = 1
<1> DEFINE S == {}
           s == << >>
<1>1. s \in Seq(S) /\ Len(s) = 0 /\ \A x \in S : f[x] \in Nat  OBVIOUS
<1> HIDE DEF S, s
<1>2. Sums(f, s)[0] = 1  BY <1>1, SumDefined
<1> QED  BY <1>1, <1>2 DEF Total, s

LEMMA TotalJoined ==
  ASSUME NEW f, NEW S, NEW s \in Seq(S), NEW u \in Seq(S), \A x \in S : f[x] \in Nat
  PROVE  Total(f, s \o u) = Total(f, s) + Total(f, u) - 1
<1> DEFINE m == Len(s)
           n == Len(u)
           j == s \o u
           a == Sums(f, s)
           b == Sums(f, u)
           c == Sums(f, j)
<1>1. /\ m \in Nat /\ n \in Nat /\ j \in Seq(S) /\ Len(j) = m + n
      /\ \A k \in 1 .. m : j[k] = s[k] /\ s[k] \in S
      /\ \A k \in 1 .. n : j[m + k] = u[k] /\ u[k] \in S
  OBVIOUS
<1>2. /\ a[0] = 1 /\ \A k \in 1 .. m : a[k] = a[k - 1] + f[s[k]]
      /\ \A k \in 0 .. m : a[k] \in Nat
  BY SumDefined
<1>3. /\ b[0] = 1 /\ \A k \in 1 .. n : b[k] = b[k - 1] + f[u[k]]
      /\ \A k \in 0 .. n : b[k] \in Nat
  BY SumDefined
<1>4. /\ c[0] = 1 /\ \A k \in 1 .. m + n : c[k] = c[k - 1] + f[j[k]]
  <2> HIDE DEF j
  <2> QED  BY <1>1, SumDefined
<1> HIDE DEF a, b, c, j, m, n
<1> DEFINE A == {k \in Nat : k <= m => c[k] = a[k]}
           B == {k \in Nat : k <= n => c[m + k] = a[m] + b[k] - 1}
<1>5. 0 \in A  BY <1>2, <1>4
<1>6. ASSUME NEW k \in Nat, k \in A PROVE k + 1 \in A
  <2> SUFFICES ASSUME k + 1 <= m PROVE c[k + 1] = a[k + 1]  OBVIOUS
  <2>1. k + 1 \in 1 .. m /\ k + 1 \in 1 .. m + n /\ k <= m /\ (k + 1) - 1 = k  BY <1>1
  <2>2. c[k + 1] = c[k] + f[j[k + 1]] /\ a[k + 1] = a[k] + f[s[k + 1]] /\ j[k + 1] = s[k + 1]
    BY <1>1, <1>2, <1>4, <2>1
  <2>3. c[k] = a[k]  BY <1>6, <2>1
  <2> QED  BY <2>2, <2>3
<1>7. Nat \subseteq A
  <2> HIDE DEF A
  <2> QED  BY <1>5, <1>6, SetInduction
<1>8. c[m] = a[m] /\ a[m] \in Nat  BY <1>1, <1>2, <1>7
<1>9. 0 \in B  BY <1>1, <1>3, <1>8
<1>10. ASSUME NEW k \in Nat, k \in B PROVE k + 1 \in B
  <2> SUFFICES ASSUME k + 1 <= n PROVE c[m + (k + 1)] = a[m] + b[k + 1] - 1  OBVIOUS
  <2>1. /\ k + 1 \in 1 .. n /\ m + (k + 1) \in 1 .. m + n /\ k <= n /\ (k + 1) - 1 = k
        /\ (m + (k + 1)) - 1 = m + k /\ k \in 0 .. n
    BY <1>1
  <2>2. /\ c[m + (k + 1)] = c[m + k] + f[j[m + (k + 1)]]
        /\ b[k + 1] = b[k] + f[u[k + 1]] /\ j[m + (k + 1)] = u[k + 1] /\ u[k + 1] \in S
    BY <1>1, <1>3, <1>4, <2>1
  <2>3. c[m + k] = a[m] + b[k] - 1 /\ b[k] \in Nat /\ f[u[k + 1]] \in Nat
    BY <1>3, <1>10, <2>1, <2>2
  <2> DEFINE d == f[u[k + 1]]
  <2> HIDE DEF d
  <2>4. c[m + (k + 1)] = c[m + k] + d /\ b[k + 1] = b[k] + d /\ d \in Nat  BY <2>2, <2>3 DEF d
  <2>5. \A p, q \in Nat : (p + q - 1) + d = p + (q + d) - 1  BY <2>4
  <2> QED  BY <1>8, <2>3, <2>4, <2>5
<1>11. Nat \subseteq B
  <2> HIDE DEF B
  <2> QED  BY <1>9, <1>10, SetInduction
<1>12. c[m + n] = a[m] + b[n] - 1  BY <1>1, <1>11
<1> QED  BY <1>1, <1>12 DEF Total, a, b, c, j, m, n

LEMMA TotalOne ==
  ASSUME NEW f, NEW x, f[x] \in Nat
  PROVE  Total(f, <<x>>) = 1 + f[x]
<1> DEFINE s == <<x>>
           S == {x}
           a == Sums(f, s)
<1>1. s \in Seq(S) /\ Len(s) = 1 /\ s[1] = x /\ \A y \in S : f[y] \in Nat  OBVIOUS
<1> HIDE DEF s, S
<1>2. a[0] = 1 /\ \A k \in 1 .. Len(s) : a[k] = a[k - 1] + f[s[k]]
  <2>1. s \in Seq(S) /\ \A y \in S : f[y] \in Nat  BY <1>1
  <2> QED  BY ONLY <2>1, SumDefined
<1> HIDE DEF a
<1>3. a[1] = 1 + f[x]  BY <1>1, <1>2
<1> QED  BY <1>1, <1>3 DEF Total, a, s

(* Functions that agree on a list have the same sum over it.               *)
LEMMA TotalAgrees ==
  ASSUME NEW f, NEW g, NEW S, NEW s \in Seq(S), \A k \in 1 .. Len(s) : f[s[k]] = g[s[k]]
  PROVE  Total(f, s) = Total(g, s)
<1> DEFINE F(sum) == [k \in 0 .. Len(s) |-> IF k = 0 THEN 1 ELSE sum[k - 1] + f[s[k]]]
           G(sum) == [k \in 0 .. Len(s) |-> IF k = 0 THEN 1 ELSE sum[k - 1] + g[s[k]]]
<1>1. Len(s) \in Nat  OBVIOUS
<1>2. \A sum : F(sum) = G(sum)  BY <1>1
<1>3. Sums(f, s) = CHOOSE sum : sum = F(sum)  BY DEF Sums
<1>4. Sums(g, s) = CHOOSE sum : sum = G(sum)  BY DEF Sums
<1> HIDE DEF F, G
<1>5. (CHOOSE sum : sum = F(sum)) = CHOOSE sum : sum = G(sum)  BY <1>2
<1> QED  BY <1>3, <1>4, <1>5 DEF Total

(* The sizes of the nodes of a tree, from the last one to the root.        *)
LEMMA SizesDefined ==
  ASSUME NEW t, Rooted(t)
  PROVE  /\ Count(t) = Sizes(t)[1]
         /\ \A i \in Nodes(t) : Sizes(t)[i] = Total(Sizes(t), t.kids[i]) /\ Sizes(t)[i] \in Nat \ {0}
<1> DEFINE n == Len(t.kids)
           From(m) == {i \in Nodes(t) : i > n - m}
           Part(f, m) == f = [i \in From(m) |-> Total(f, t.kids[i])]
                         /\ \A i \in From(m) : f[i] \in Nat \ {0}
           I == {m \in Nat : m <= n => \E f : Part(f, m)}
<1>1. n \in Nat /\ Nodes(t) = 1 .. n /\ DOMAIN t.kids = Nodes(t)  BY DEF Rooted, Nodes
<1>2. \A i \in Nodes(t) : t.kids[i] \in Seq(Nodes(t)) /\ \A k \in 1 .. Len(t.kids[i]) : t.kids[i][k] > i
  BY DEF Rooted
<1>3. ASSUME NEW m \in Nat, NEW i \in From(m + 1), m + 1 <= n
      PROVE  t.kids[i] \in Seq(From(m))
  <2>1. i \in Nodes(t) /\ i > n - (m + 1)  OBVIOUS
  <2> DEFINE s == t.kids[i]
  <2>2. s \in Seq(Nodes(t)) /\ Len(s) \in Nat /\ \A k \in 1 .. Len(s) : s[k] > i /\ s[k] \in Nodes(t)
    BY <1>2, <2>1
  <2>3. s \in [1 .. Len(s) -> Nodes(t)]  BY <2>2
  <2> HIDE DEF s
  <2>4. \A k \in 1 .. Len(s) : s[k] \in From(m)  BY <1>1, <2>1, <2>2
  <2> HIDE DEF From
  <2>5. s \in [1 .. Len(s) -> From(m)]  BY <2>3, <2>4
  <2>6. s \in Seq(From(m))  BY <2>2, <2>5
  <2> QED  BY <2>6 DEF s
<1>4. 0 \in I
  <2>1. From(0) = {}  BY <1>1
  <2>2. Part(<< >>, 0)  BY <2>1
  <2> HIDE DEF Part
  <2> QED  BY <2>2
<1> HIDE DEF Part
<1>5. ASSUME NEW m \in Nat, m \in I PROVE m + 1 \in I
  <2> SUFFICES ASSUME m + 1 <= n PROVE \E f : Part(f, m + 1)  OBVIOUS
  <2>1. PICK f : Part(f, m)  BY <1>1, <1>5
  <2> DEFINE g == [i \in From(m + 1) |-> Total(f, t.kids[i])]
  <2>2. From(m) \subseteq From(m + 1) /\ From(m + 1) \subseteq Nodes(t)  BY <1>1
  <2>3. \A i \in From(m) : f[i] \in Nat /\ f[i] = Total(f, t.kids[i])  BY <2>1 DEF Part
  <2>4. \A i \in From(m) : g[i] = f[i]  BY <2>2, <2>3
  <2>5. \A i \in From(m + 1) : g[i] = Total(f, t.kids[i])  OBVIOUS
  <2>6. g = [i \in From(m + 1) |-> g[i]]  OBVIOUS
  <2> HIDE DEF g, From
  <2>7. ASSUME NEW i \in From(m + 1)
        PROVE  g[i] = Total(g, t.kids[i]) /\ g[i] \in Nat \ {0}
    <3>1. t.kids[i] \in Seq(From(m))  BY <1>3
    <3>2. \A k \in 1 .. Len(t.kids[i]) : t.kids[i][k] \in From(m)  BY <3>1
    <3>3. \A k \in 1 .. Len(t.kids[i]) : f[t.kids[i][k]] = g[t.kids[i][k]]  BY <2>4, <3>2
    <3>4. Total(f, t.kids[i]) = Total(g, t.kids[i])  BY <3>1, <3>3, TotalAgrees
    <3>5. Total(f, t.kids[i]) \in Nat \ {0}  BY <2>3, <3>1, TotalTyped
    <3> QED  BY <2>5, <3>4, <3>5
  <2>8. Part(g, m + 1)  BY <2>6, <2>7 DEF Part
  <2> QED  BY <2>8
<1>6. Nat \subseteq I
  <2> HIDE DEF I
  <2> QED  BY <1>4, <1>5, SetInduction
<1>7. From(n) = DOMAIN t.kids  BY <1>1
<1>8. PICK f : Part(f, n)  BY <1>1, <1>6
<1>9. \E h : Sizing(t, h)  BY <1>7, <1>8 DEF Sizing, Part
<1>10. Sizing(t, Sizes(t))  BY <1>9 DEF Sizes
<1> DEFINE z == Sizes(t)
<1>11. \A i \in Nodes(t) : z[i] = Total(z, t.kids[i])  BY <1>1, <1>10 DEF Sizing
<1> HIDE DEF z
<1> DEFINE J == {m \in Nat : m <= n => \A i \in From(m) : z[i] \in Nat \ {0}}
<1>12. 0 \in J  BY <1>1
<1>13. ASSUME NEW m \in Nat, m \in J PROVE m + 1 \in J
  <2> SUFFICES ASSUME m + 1 <= n, NEW i \in From(m + 1) PROVE z[i] \in Nat \ {0}  OBVIOUS
  <2>1. \A j \in From(m) : z[j] \in Nat  BY <1>1, <1>13
  <2>2. t.kids[i] \in Seq(From(m)) /\ i \in Nodes(t)  BY <1>3
  <2> HIDE DEF From
  <2>3. Total(z, t.kids[i]) \in Nat \ {0}  BY <2>1, <2>2, TotalTyped
  <2> QED  BY <1>11, <2>2, <2>3
<1>14. Nat \subseteq J
  <2> HIDE DEF J
  <2> QED  BY <1>12, <1>13, SetInduction
<1>15. \A i \in Nodes(t) : z[i] \in Nat \ {0}  BY <1>1, <1>7, <1>14
<1>16. Count(t) = Sizes(t)[1]  BY DEF Count, Sizes, Sizing, Total, Sums
<1> QED  BY <1>11, <1>15, <1>16 DEF z

(* The same for the value tree: Copied is defined of every node.           *)
Copying(t, f) ==
  f = [i \in DOMAIN t.kids |-> Finish(View(t, i), [k \in DOMAIN t.kids[i] |-> f[t.kids[i][k]]])]

Copies(t) == CHOOSE f : Copying(t, f)

LEMMA CopiesDefined ==
  ASSUME NEW t, Rooted(t)
  PROVE  /\ Copied(t) = Copies(t)[1]
         /\ \A i \in Nodes(t) :
              Copies(t)[i] = Finish(View(t, i), [k \in DOMAIN t.kids[i] |-> Copies(t)[t.kids[i][k]]])
<1> DEFINE n == Len(t.kids)
           From(m) == {i \in Nodes(t) : i > n - m}
           Made(f, i) == Finish(View(t, i), [k \in DOMAIN t.kids[i] |-> f[t.kids[i][k]]])
           Part(f, m) == f = [i \in From(m) |-> Made(f, i)]
           I == {m \in Nat : m <= n => \E f : Part(f, m)}
<1>1. n \in Nat /\ Nodes(t) = 1 .. n /\ DOMAIN t.kids = Nodes(t)  BY DEF Rooted, Nodes
<1>2. ASSUME NEW m \in Nat, NEW i \in From(m + 1), m + 1 <= n
      PROVE  \A k \in DOMAIN t.kids[i] : t.kids[i][k] \in From(m)
  <2>1. i \in Nodes(t) /\ i > n - (m + 1)  OBVIOUS
  <2> DEFINE s == t.kids[i]
  <2>2. s \in Seq(Nodes(t)) /\ \A k \in 1 .. Len(s) : s[k] > i  BY <2>1 DEF Rooted
  <2>3. DOMAIN s = 1 .. Len(s) /\ \A k \in 1 .. Len(s) : s[k] \in Nodes(t)  BY <2>2
  <2> HIDE DEF s
  <2>4. \A k \in DOMAIN s : s[k] \in From(m)  BY <1>1, <2>1, <2>2, <2>3
  <2> QED  BY <2>4 DEF s
<1> HIDE DEF Made
<1>3. 0 \in I
  <2>1. From(0) = {}  BY <1>1
  <2>2. Part(<< >>, 0)  BY <2>1
  <2> HIDE DEF Part
  <2> QED  BY <2>2
<1> HIDE DEF Part
<1>4. ASSUME NEW m \in Nat, m \in I PROVE m + 1 \in I
  <2> SUFFICES ASSUME m + 1 <= n PROVE \E f : Part(f, m + 1)  OBVIOUS
  <2>1. PICK f : Part(f, m)  BY <1>1, <1>4
  <2> DEFINE g == [i \in From(m + 1) |-> Made(f, i)]
  <2>2. From(m) \subseteq From(m + 1)  BY <1>1
  <2>3. \A i \in From(m) : f[i] = Made(f, i)  BY <2>1 DEF Part
  <2>4. \A i \in From(m) : g[i] = f[i]  BY <2>2, <2>3
  <2>5. \A i \in From(m + 1) : g[i] = Made(f, i)  OBVIOUS
  <2>6. g = [i \in From(m + 1) |-> g[i]]  OBVIOUS
  <2> HIDE DEF g, From
  <2>7. ASSUME NEW i \in From(m + 1) PROVE Made(f, i) = Made(g, i)
    <3> DEFINE D == DOMAIN t.kids[i]
    <3>1. \A k \in D : f[t.kids[i][k]] = g[t.kids[i][k]]  BY <1>2, <2>4
    <3>2. [k \in D |-> f[t.kids[i][k]]] = [k \in D |-> g[t.kids[i][k]]]  BY <3>1
    <3> QED  BY <3>2 DEF Made
  <2>8. Part(g, m + 1)  BY <2>5, <2>6, <2>7 DEF Part
  <2> QED  BY <2>8
<1>5. Nat \subseteq I
  <2> HIDE DEF I
  <2> QED  BY <1>3, <1>4, SetInduction
<1>6. From(n) = DOMAIN t.kids  BY <1>1
<1>7. PICK f : Part(f, n)  BY <1>1, <1>5
<1>8. \E h : Copying(t, h)  BY <1>6, <1>7 DEF Copying, Part, Made
<1>9. Copying(t, Copies(t))  BY <1>8 DEF Copies
<1>10. Copied(t) = Copies(t)[1]  BY DEF Copied, Copies, Copying
<1> DEFINE c == Copies(t)
<1>11. c = [i \in DOMAIN t.kids |-> Made(c, i)]  BY <1>9 DEF Copying, Made
<1> HIDE DEF c
<1>12. \A i \in Nodes(t) : c[i] = Made(c, i)  BY <1>1, <1>11
<1> QED  BY <1>10, <1>12 DEF c, Made

-----------------------------------------------------------------------------
(***************************************************************************)
(* The layout of a node: fourteen fields one after the other, in ninety-   *)
(* two bytes.                                                              *)
(***************************************************************************)
Starts == <<0, 4, 12, 20, 28, 36, 44, 52, 56, 60, 64, 72, 80, 88, 92>>

LEMMA OffsetsOf ==
  /\ Len(Written) = 14 /\ DOMAIN Written = 1 .. 14
  /\ \A k \in 1 .. 15 : Offset(Written)[k] = Starts[k]
<1>1. Len(Written) = 14 /\ DOMAIN Written = 1 .. 14  BY DEF Written
<1> DEFINE Body(at) == [k \in 1 .. 15 |-> IF k = 1 THEN 0 ELSE at[k - 1] + Written[k - 1][2]]
<1>2. /\ Written[1][2] = 4 /\ Written[2][2] = 8 /\ Written[3][2] = 8 /\ Written[4][2] = 8
      /\ Written[5][2] = 8 /\ Written[6][2] = 8 /\ Written[7][2] = 8 /\ Written[8][2] = 4
      /\ Written[9][2] = 4 /\ Written[10][2] = 4 /\ Written[11][2] = 8 /\ Written[12][2] = 8
      /\ Written[13][2] = 8 /\ Written[14][2] = 4
  BY DEF Written
<1>3. /\ Starts[1] = 0 /\ Starts[2] = 4 /\ Starts[3] = 12 /\ Starts[4] = 20 /\ Starts[5] = 28
      /\ Starts[6] = 36 /\ Starts[7] = 44 /\ Starts[8] = 52 /\ Starts[9] = 56 /\ Starts[10] = 60
      /\ Starts[11] = 64 /\ Starts[12] = 72 /\ Starts[13] = 80 /\ Starts[14] = 88 /\ Starts[15] = 92
      /\ Starts \in [1 .. 15 -> Nat]
  BY DEF Starts
<1>4. \A k \in 1 .. 15 :
        \/ k = 1 \/ k = 2 \/ k = 3 \/ k = 4 \/ k = 5 \/ k = 6 \/ k = 7 \/ k = 8 \/ k = 9 \/ k = 10
        \/ k = 11 \/ k = 12 \/ k = 13 \/ k = 14 \/ k = 15
  OBVIOUS
<1>5. \A k \in 1 .. 15 : Starts[k] = IF k = 1 THEN 0 ELSE Starts[k - 1] + Written[k - 1][2]
  BY <1>2, <1>3, <1>4
<1>6. Starts = Body(Starts)  BY <1>3, <1>5
<1>7. Offset(Written) = CHOOSE at : at = Body(at)  BY <1>1 DEF Offset
<1>8. Offset(Written) = Body(Offset(Written))
  <2> HIDE DEF Body
  <2> QED  BY <1>6, <1>7
<1> DEFINE o == Offset(Written)
<1>9. o = Body(o)  BY <1>8
<1> HIDE DEF o
<1>10. \A k \in 1 .. 15 : o[k] = IF k = 1 THEN 0 ELSE o[k - 1] + Written[k - 1][2]  BY <1>9
<1>11. /\ o[1] = 0 /\ o[2] = o[1] + 4 /\ o[3] = o[2] + 8 /\ o[4] = o[3] + 8 /\ o[5] = o[4] + 8
       /\ o[6] = o[5] + 8 /\ o[7] = o[6] + 8 /\ o[8] = o[7] + 8 /\ o[9] = o[8] + 4
       /\ o[10] = o[9] + 4 /\ o[11] = o[10] + 4 /\ o[12] = o[11] + 8 /\ o[13] = o[12] + 8
       /\ o[14] = o[13] + 8 /\ o[15] = o[14] + 4
  BY <1>2, <1>10
<1>12. \A k \in 1 .. 15 : o[k] = Starts[k]  BY <1>3, <1>4, <1>11
<1> QED  BY <1>1, <1>12 DEF o

FieldNames == Opaque \cup {"kind", "style", "family", "children"}

(* The places of the fields differ, and lie in a node's bytes.             *)
LEMMA PlacesApart ==
  /\ DOMAIN PlacesWritten = FieldNames /\ BytesWritten = NodeBytes
  /\ \A f \in FieldNames : PlacesWritten[f].at \in 0 .. NodeBytes - 1
  /\ \A f, g \in FieldNames : PlacesWritten[f].at = PlacesWritten[g].at => f = g
<1> DEFINE order == Written
           at == Offset(order)
           nth(f) == CHOOSE k \in DOMAIN order : order[k][1] = f
           names == {order[k][1] : k \in DOMAIN order}
<1>1. DOMAIN order = 1 .. 14 /\ \A k \in 1 .. 15 : at[k] = Starts[k]  BY OffsetsOf
<1>2. PlacesWritten = [f \in names |-> [at |-> at[nth(f)], width |-> order[nth(f)][2]]]
  BY DEF PlacesWritten, Place
<1>3. BytesWritten = 92  BY OffsetsOf DEF BytesWritten, Starts
<1>4. /\ order[1][1] = "kind" /\ order[2][1] = "x" /\ order[3][1] = "y" /\ order[4][1] = "width"
      /\ order[5][1] = "ascent" /\ order[6][1] = "descent" /\ order[7][1] = "italic"
      /\ order[8][1] = "codepoint" /\ order[9][1] = "style" /\ order[10][1] = "family"
      /\ order[11][1] = "size" /\ order[12][1] = "begin" /\ order[13][1] = "end"
      /\ order[14][1] = "children"
  BY DEF Written
<1>5. names = FieldNames
  <2>1. \A k : k \in DOMAIN order <=>
          \/ k = 1 \/ k = 2 \/ k = 3 \/ k = 4 \/ k = 5 \/ k = 6 \/ k = 7 \/ k = 8 \/ k = 9 \/ k = 10
          \/ k = 11 \/ k = 12 \/ k = 13 \/ k = 14
    BY <1>1
  <2> HIDE DEF order
  <2> QED  BY <1>4, <2>1 DEF FieldNames, Opaque
<1>6. \A f \in names : nth(f) \in 1 .. 14 /\ order[nth(f)][1] = f  BY <1>1
<1>7. \A k \in 1 .. 14 : at[k] \in 0 .. 91 /\ at[k] = Starts[k]  BY <1>1 DEF Starts
<1>8. \A j, k \in 1 .. 14 : Starts[j] = Starts[k] => j = k
  <2>1. \A k \in 1 .. 14 : Starts[k] < Starts[k + 1]  BY DEF Starts
  <2> QED  BY DEF Starts
<1>9. \A f \in names : PlacesWritten[f].at = at[nth(f)]  BY <1>2
<1>10. DOMAIN PlacesWritten = names  BY <1>2
<1> HIDE DEF order, at, nth, names
<1>11. \A f \in names : PlacesWritten[f].at \in 0 .. 91  BY <1>6, <1>7, <1>9
<1>12. \A f, g \in names : PlacesWritten[f].at = PlacesWritten[g].at => f = g
  <2> SUFFICES ASSUME NEW f \in names, NEW g \in names, PlacesWritten[f].at = PlacesWritten[g].at
               PROVE  f = g
    OBVIOUS
  <2>1. Starts[nth(f)] = Starts[nth(g)]  BY <1>6, <1>7, <1>9
  <2>2. nth(f) = nth(g)  BY <1>6, <1>8, <2>1
  <2> QED  BY <1>6, <2>2
<1> QED  BY <1>3, <1>5, <1>10, <1>11, <1>12 DEF NodeBytes

(* The three sides agree on them.                                          *)
LEMMA PlacesAgree ==
  ASSUME client \in {"ES", "JNI"} PROVE PlacesRead[client] = PlacesWritten
  BY DEF PlacesRead, PlacesWritten, Written, ReadByES, ReadByKotlin

(* A node that is laid down is at its places, and nowhere else.            *)
LEMMA NodeLaid ==
  ASSUME NEW from \in Nat, NEW view
  PROVE  LET l == Laid(from, view) IN
         /\ DOMAIN l = {from + PlacesWritten[f].at : f \in FieldNames}
         /\ \A f \in FieldNames :
              l[from + PlacesWritten[f].at] = Field(PlacesWritten[f].width, view[f])
<1> DEFINE P == PlacesWritten
<1>1. DOMAIN P = FieldNames /\ \A f \in FieldNames : P[f].at \in Nat
  BY PlacesApart DEF NodeBytes
<1>2. \A f, g \in FieldNames : P[f].at = P[g].at => f = g  BY PlacesApart
<1>3. ASSUME NEW f \in FieldNames
      PROVE  (CHOOSE g \in FieldNames : from + P[g].at = from + P[f].at) = f
  <2> DEFINE h == CHOOSE g \in FieldNames : from + P[g].at = from + P[f].at
  <2>1. h \in FieldNames /\ from + P[h].at = from + P[f].at  OBVIOUS
  <2> HIDE DEF h
  <2>2. P[h].at = P[f].at  BY <1>1, <2>1
  <2>3. h = f  BY <1>2, <2>1, <2>2
  <2> QED  BY <2>3 DEF h
<1> HIDE DEF P
<1> DEFINE named(p) == CHOOSE f \in FieldNames : from + P[f].at = p
           D == {from + P[f].at : f \in FieldNames}
<1>4. Laid(from, view) = [p \in D |-> Field(P[named(p)].width, view[named(p)])]
  BY <1>1 DEF Laid, P
<1>5. \A f \in FieldNames : named(from + P[f].at) = f  BY <1>3
<1>6. \A f \in FieldNames : from + P[f].at \in D  OBVIOUS
<1> HIDE DEF named
<1>7. \A f \in FieldNames : Laid(from, view)[from + P[f].at] = Field(P[f].width, view[f])
  BY <1>4, <1>5, <1>6
<1>8. DOMAIN Laid(from, view) = D  BY <1>4
<1> QED  BY <1>7, <1>8 DEF P

-----------------------------------------------------------------------------
(***************************************************************************)
(* The views of the nodes.                                                 *)
(***************************************************************************)
LEMMA Coded ==
  ASSUME NEW s, NEW name \in Members(s)
  PROVE  Code(s, name) \in DOMAIN s /\ s[Code(s, name)] = name
BY DEF Members, Code

LEMMA Viewed ==
  ASSUME NEW t, Rooted(t), NEW i \in Nodes(t)
  PROVE  LET view == View(t, i) IN
         /\ view = [f \in FieldNames |-> view[f]] /\ view["children"][2] = Len(t.kids[i])
         /\ Kinds[view["kind"][2]] = t.kind[i] /\ Sound(view)
<1> DEFINE view == View(t, i)
           glyph == t.kind[i] = "GLYPH"
<1>1. /\ t.kind[i] \in Members(Kinds) /\ (t.kind[i] # "HBOX" => t.kids[i] = << >>)
      /\ t.style[i] \in Members(Styles) /\ t.family[i] \in Members(Families)
  BY DEF Rooted
<1>2. view = [f \in FieldNames |-> view[f]]  BY DEF View, FieldNames
<1>3. {"kind", "style", "family", "children"} \subseteq FieldNames  BY DEF FieldNames
<1>4. view["kind"] = <<"kind", Code(Kinds, t.kind[i])>>  BY <1>3 DEF View, FieldNames
<1>5. view["style"] = <<"style", IF glyph THEN Code(Styles, t.style[i]) - 1 ELSE 0>>
  BY <1>3 DEF View, FieldNames
<1>6. view["family"] = <<"family", IF glyph THEN Code(Families, t.family[i]) - 1 ELSE 0>>
  BY <1>3 DEF View, FieldNames
<1>7. view["children"] = <<"children", Len(t.kids[i])>>  BY <1>3 DEF View, FieldNames
<1>8. DOMAIN Styles = 1 .. 2 /\ DOMAIN Families = 1 .. 11  BY DEF Styles, Families
<1> HIDE DEF view, glyph
<1>9. Code(Kinds, t.kind[i]) \in DOMAIN Kinds /\ Kinds[Code(Kinds, t.kind[i])] = t.kind[i]
  BY <1>1, Coded
<1>10. Code(Styles, t.style[i]) \in 1 .. 2 /\ Code(Families, t.family[i]) \in 1 .. 11
  BY <1>1, <1>8, Coded
<1>11. view["style"][2] + 1 \in 1 .. 2  BY <1>5, <1>10
<1>12. view["family"][2] + 1 \in 1 .. 11  BY <1>6, <1>10
<1>13. view["kind"][2] = Code(Kinds, t.kind[i]) /\ view["children"][2] = Len(t.kids[i])
  BY <1>4, <1>7
<1>14. Kinds[view["kind"][2]] # "HBOX" => view["children"][2] = 0
  BY <1>1, <1>9, <1>13
<1>15. Sound(view)  BY <1>8, <1>9, <1>11, <1>12, <1>13, <1>14 DEF Sound
<1> QED  BY <1>2, <1>9, <1>13, <1>15 DEF view

-----------------------------------------------------------------------------
(***************************************************************************)
(* txc1_node: T has what is left to write after each node, in the order of *)
(* the calls; the node written next is the first of it.                    *)
(***************************************************************************)
Walk(t, T, d) ==
  /\ \A q \in 0 .. d : T[q] \in Seq(Nodes(t))
  /\ T[0] = <<1>>
  /\ \A q \in 0 .. d - 1 : T[q] # << >> /\ T[q + 1] = t.kids[Head(T[q])] \o Tail(T[q])

Recorded(w, t, q, i) ==
  \A f \in FieldNames :
    LET p == HeaderBytes + q * NodeBytes + PlacesWritten[f].at IN
      p \in DOMAIN w /\ w[p] = Field(PlacesWritten[f].width, View(t, i)[f])

Header(w, t) ==
  /\ 0 \in DOMAIN w /\ w[0] = Field(4, <<"status", 0>>)
  /\ 4 \in DOMAIN w /\ w[4] = Field(4, <<"count", Count(t)>>)

(* The payload when d nodes are in it.                                     *)
Payload(w, pos, cap, t, T, d) ==
  /\ Walk(t, T, d) /\ Header(w, t)
  /\ \A q \in 0 .. d - 1 : Recorded(w, t, q, Head(T[q]))
  /\ \A p \in DOMAIN w : p \in Nat /\ p < pos
  /\ pos = HeaderBytes + d * NodeBytes /\ cap = HeaderBytes + Count(t) * NodeBytes
  /\ d + Total(Sizes(t), T[d]) - 1 = Count(t)

LEMMA SizesTyped ==
  ASSUME NEW t, Rooted(t)
  PROVE  /\ Count(t) \in Nat \ {0} /\ Count(t) = Sizes(t)[1] /\ 1 \in Nodes(t)
         /\ \A i \in Nodes(t) : Sizes(t)[i] \in Nat /\ Sizes(t)[i] = Total(Sizes(t), t.kids[i])
<1>1. 1 \in Nodes(t)  BY DEF Rooted
<1> QED  BY <1>1, SizesDefined

(* The header, with nothing but the root to write.                         *)
LEMMA PayloadBegins ==
  ASSUME NEW t, Rooted(t), NEW w, Header(w, t), DOMAIN w = {0, 4},
         NEW cap, cap = HeaderBytes + Count(t) * NodeBytes
  PROVE  \E T : Payload(w, HeaderBytes, cap, t, T, 0) /\ T[0] = <<1>>
<1> DEFINE T == [q \in {0} |-> <<1>>]
           z == Sizes(t)
<1>1. Count(t) = z[1] /\ z[1] \in Nat /\ 1 \in Nodes(t)  BY SizesTyped
<1>2. T[0] = <<1>> /\ <<1>> \in Seq(Nodes(t))  BY <1>1
<1>3. Walk(t, T, 0)
  <2>1. \A q \in 0 .. 0 : q = 0  OBVIOUS
  <2>2. 0 .. 0 - 1 = {}  OBVIOUS
  <2> HIDE DEF T
  <2> QED  BY <1>2, <2>1, <2>2 DEF Walk
<1> HIDE DEF T, z
<1>4. Total(z, <<1>>) = 1 + z[1]  BY <1>1, TotalOne
<1>5. 0 + Total(z, T[0]) - 1 = Count(t)  BY <1>1, <1>2, <1>4
<1>6. \A p \in DOMAIN w : p \in Nat /\ p < HeaderBytes  BY DEF HeaderBytes
<1>7. HeaderBytes = HeaderBytes + 0 * NodeBytes  BY DEF HeaderBytes, NodeBytes
<1>8. 0 .. 0 - 1 = {}  OBVIOUS
<1>9. Payload(w, HeaderBytes, cap, t, T, 0)
  BY <1>3, <1>5, <1>6, <1>7, <1>8 DEF Payload, z
<1> QED  BY <1>2, <1>9

LEMMA BehindKeeps ==
  ASSUME NEW w, NEW laid
  PROVE  LET b == Behind(w, laid) IN
         /\ DOMAIN b = DOMAIN w \cup DOMAIN laid
         /\ \A p \in DOMAIN w : b[p] = w[p]
         /\ \A p \in DOMAIN laid : p \notin DOMAIN w => b[p] = laid[p]
BY DEF Behind

LEMMA HeadAndTail ==
  ASSUME NEW S, NEW s \in Seq(S), s # << >>
  PROVE  /\ Head(s) \in S /\ Tail(s) \in Seq(S) /\ Len(s) \in Nat \ {0}
         /\ s = <<Head(s)>> \o Tail(s)
<1>1. Head(s) \in S /\ Tail(s) \in Seq(S)  OBVIOUS
<1>2. s = <<Head(s)>> \o Tail(s)
  <2> DEFINE u == <<Head(s)>> \o Tail(s)
  <2>1. Len(s) \in Nat \ {0} /\ Len(Tail(s)) = Len(s) - 1 /\ Head(s) = s[1]  OBVIOUS
  <2>2. <<Head(s)>> \in Seq(S) /\ Len(<<Head(s)>>) = 1  BY <1>1
  <2>3. u \in Seq(S) /\ Len(u) = Len(s)  BY <1>1, <2>1, <2>2
  <2>4. ASSUME NEW k \in 1 .. Len(s) PROVE u[k] = s[k]
    <3>1. CASE k = 1  BY <1>1, <2>1, <2>2, <3>1
    <3>2. CASE k # 1
      <4>1. k - 1 \in 1 .. Len(Tail(s)) /\ (k - 1) + 1 = k  BY <2>1, <3>2
      <4>2. u[k] = Tail(s)[k - 1]  BY <1>1, <2>1, <2>2, <3>2
      <4>3. Tail(s)[k - 1] = s[k]  BY <4>1
      <4> QED  BY <4>2, <4>3
    <3> QED  BY <3>1, <3>2
  <2> HIDE DEF u
  <2>5. u = s  BY <2>3, <2>4, SeqEqual
  <2> QED  BY <2>5 DEF u
<1> QED  BY <1>1, <1>2

(* One node more.                                                          *)
Grows(w, pos, cap, t, T, d) ==
  \E U : /\ Payload(Behind(w, Laid(pos, View(t, Head(T[d])))), pos + BytesWritten, cap, t, U, d + 1)
         /\ U[d + 1] = t.kids[Head(T[d])] \o Tail(T[d])

LEMMA PayloadGrows ==
  ASSUME NEW t, Rooted(t), NEW w, NEW pos, NEW cap, NEW d \in Nat, NEW T,
         Payload(w, pos, cap, t, T, d), T[d] # << >>
  PROVE  Grows(w, pos, cap, t, T, d)
<1> DEFINE h == Head(T[d])
           rest == Tail(T[d])
           more == t.kids[h] \o rest
           U == [q \in 0 .. d + 1 |-> IF q <= d THEN T[q] ELSE more]
           z == Sizes(t)
           laid == Laid(pos, View(t, h))
           b == Behind(w, laid)
<1>1. /\ Walk(t, T, d) /\ Header(w, t) /\ \A q \in 0 .. d - 1 : Recorded(w, t, q, Head(T[q]))
      /\ \A p \in DOMAIN w : p \in Nat /\ p < pos
      /\ pos = HeaderBytes + d * NodeBytes /\ cap = HeaderBytes + Count(t) * NodeBytes
      /\ d + Total(z, T[d]) - 1 = Count(t)
  BY DEF Payload
<1>2. T[d] \in Seq(Nodes(t))  BY <1>1 DEF Walk
<1>3. h \in Nodes(t) /\ rest \in Seq(Nodes(t)) /\ T[d] = <<h>> \o rest  BY <1>2, HeadAndTail
<1>4. t.kids[h] \in Seq(Nodes(t))  BY <1>3 DEF Rooted
<1>5. more \in Seq(Nodes(t))  BY <1>3, <1>4
<1>6. /\ \A q \in 0 .. d : U[q] = T[q]
      /\ U[d + 1] = more /\ d \in 0 .. d
      /\ \A q \in 0 .. d + 1 : q \in 0 .. d \/ q = d + 1
  <2> HIDE DEF more
  <2> QED  OBVIOUS
<1>7. \A i \in Nodes(t) : z[i] \in Nat /\ z[i] = Total(z, t.kids[i])  BY SizesTyped
<1>8. Total(z, T[d]) = z[h] + Total(z, rest) /\ Total(z, rest) \in Nat /\ z[h] \in Nat
  <2>1. <<h>> \in Seq(Nodes(t))  BY <1>3
  <2>2. Total(z, <<h>>) = 1 + z[h] /\ z[h] \in Nat  BY <1>3, <1>7, TotalOne
  <2> HIDE DEF h, rest, z
  <2>3. Total(z, <<h>> \o rest) = Total(z, <<h>>) + Total(z, rest) - 1
    BY <1>3, <1>7, <2>1, TotalJoined
  <2>4. Total(z, rest) \in Nat  BY <1>3, <1>7, TotalTyped
  <2> QED  BY <1>3, <2>2, <2>3, <2>4
<1>9. Total(z, more) = z[h] + Total(z, rest) - 1
  <2> HIDE DEF h, rest, z
  <2>1. Total(z, t.kids[h] \o rest) = Total(z, t.kids[h]) + Total(z, rest) - 1
    BY <1>3, <1>4, <1>7, TotalJoined
  <2> QED  BY <1>3, <1>7, <2>1
<1> HIDE DEF h, rest, more, U, z
<1>10. d + 1 + Total(z, U[d + 1]) - 1 = Count(t)
  <2> DEFINE a == z[h]
             c == Total(z, rest)
  <2>1. Total(z, U[d + 1]) = a + c - 1 /\ Total(z, T[d]) = a + c /\ a \in Nat /\ c \in Nat
    BY <1>6, <1>8, <1>9
  <2> HIDE DEF a, c
  <2> QED  BY <1>1, <2>1
<1>11. Walk(t, U, d + 1)
  <2>1. \A q \in 0 .. d + 1 : U[q] \in Seq(Nodes(t))  BY <1>1, <1>5, <1>6 DEF Walk
  <2>2. U[0] = <<1>>  BY <1>1, <1>6 DEF Walk
  <2>3. ASSUME NEW q \in 0 .. (d + 1) - 1
        PROVE  U[q] # << >> /\ U[q + 1] = t.kids[Head(U[q])] \o Tail(U[q])
    <3>1. CASE q = d
      <4>1. U[q] = T[d] /\ U[q + 1] = t.kids[Head(T[d])] \o Tail(T[d])
        BY <1>6, <3>1 DEF more, h, rest
      <4> QED  BY <4>1
    <3>2. CASE q # d
      <4>1. q \in 0 .. d - 1 /\ q \in 0 .. d /\ q + 1 \in 0 .. d  BY <3>2
      <4> QED  BY <1>1, <1>6, <4>1 DEF Walk
    <3> QED  BY <3>1, <3>2
  <2> QED  BY <2>1, <2>2, <2>3 DEF Walk
<1>12. pos \in Nat /\ pos + BytesWritten = HeaderBytes + (d + 1) * NodeBytes
  BY <1>1, PlacesApart DEF HeaderBytes, NodeBytes
<1> DEFINE P == PlacesWritten
           view == View(t, h)
<1>13. /\ DOMAIN laid = {pos + P[f].at : f \in FieldNames}
       /\ \A f \in FieldNames : laid[pos + P[f].at] = Field(P[f].width, view[f])
       /\ \A f \in FieldNames : P[f].at \in 0 .. NodeBytes - 1
  BY <1>12, NodeLaid, PlacesApart
<1>14. /\ DOMAIN b = DOMAIN w \cup DOMAIN laid /\ \A p \in DOMAIN w : b[p] = w[p]
       /\ \A p \in DOMAIN laid : p \notin DOMAIN w => b[p] = laid[p]
  <2> HIDE DEF laid
  <2> QED  BY BehindKeeps
<1> HIDE DEF laid, b, P, view
<1>15. \A p \in DOMAIN b : p \in Nat /\ p < pos + BytesWritten
  <2>0. BytesWritten = 92  BY PlacesApart DEF NodeBytes
  <2>1. \A f \in FieldNames : pos + P[f].at \in Nat /\ pos + P[f].at < pos + BytesWritten
    <3> TAKE f \in FieldNames
    <3> DEFINE at == P[f].at
    <3>1. at \in 0 .. 91  BY <1>13 DEF NodeBytes
    <3> HIDE DEF at
    <3>2. pos + at \in Nat /\ pos + at < pos + BytesWritten  BY <1>12, <2>0, <3>1
    <3> QED  BY <3>2 DEF at
  <2>2. \A p \in DOMAIN w : p \in Nat /\ p < pos + BytesWritten
    BY <1>1, <1>12, PlacesApart DEF NodeBytes
  <2> QED  BY <1>13, <1>14, <2>1, <2>2
<1>16. Header(b, t)  BY <1>1, <1>14 DEF Header
<1>17. ASSUME NEW q \in 0 .. (d + 1) - 1 PROVE Recorded(b, t, q, Head(U[q]))
  <2>1. CASE q = d
    <3>1. Head(U[q]) = h  BY <1>6, <2>1 DEF h
    <3>2. HeaderBytes + q * NodeBytes = pos  BY <1>1, <2>1
    <3>3. ASSUME NEW f \in FieldNames
          PROVE  pos + P[f].at \in DOMAIN b /\ b[pos + P[f].at] = Field(P[f].width, view[f])
      <4>1. pos + P[f].at \in DOMAIN laid  BY <1>13
      <4>2. pos + P[f].at \notin DOMAIN w
        <5>1. ~(pos + P[f].at < pos)  BY <1>12, <1>13
        <5> QED  BY <1>1, <5>1
      <4> QED  BY <1>13, <1>14, <4>1, <4>2
    <3> QED  BY <3>1, <3>2, <3>3 DEF Recorded, view, P
  <2>2. CASE q # d
    <3>1. q \in 0 .. d - 1 /\ q \in 0 .. d  BY <2>2
    <3>2. Recorded(w, t, q, Head(T[q])) /\ U[q] = T[q]  BY <1>1, <1>6, <3>1
    <3> QED  BY <1>14, <3>2 DEF Recorded
  <2> QED  BY <2>1, <2>2
<1>18. Payload(b, pos + BytesWritten, cap, t, U, d + 1)
  BY <1>1, <1>10, <1>11, <1>12, <1>15, <1>16, <1>17 DEF Payload, z
<1>19. U[d + 1] = t.kids[Head(T[d])] \o Tail(T[d])  BY <1>6 DEF more, h, rest
<1> QED  BY <1>18, <1>19 DEF Grows, b, laid, h

(* What is written never passes the block, and fills it when nothing is    *)
(* left to write.                                                          *)
LEMMA PayloadFits ==
  ASSUME NEW t, Rooted(t), NEW w, NEW pos, NEW cap, NEW d \in Nat, NEW T,
         Payload(w, pos, cap, t, T, d)
  PROVE  /\ pos \in Nat /\ cap \in Nat /\ pos <= cap
         /\ T[d] = << >> => pos = cap /\ d = Count(t)
<1> DEFINE z == Sizes(t)
<1>1. T[d] \in Seq(Nodes(t))  BY DEF Payload, Walk
<1>2. Count(t) \in Nat /\ \A i \in Nodes(t) : z[i] \in Nat  BY SizesTyped
<1>3. Total(z, T[d]) \in Nat \ {0}
  <2> HIDE DEF z
  <2> QED  BY <1>1, <1>2, TotalTyped
<1>4. T[d] = << >> => Total(z, T[d]) = 1
  <2> HIDE DEF z
  <2> QED  BY TotalEmpty
<1>5. d + Total(z, T[d]) - 1 = Count(t)  BY DEF Payload
<1> DEFINE n == Total(z, T[d])
           c == Count(t)
<1> HIDE DEF z, n, c
<1>6. d <= c /\ c \in Nat /\ (T[d] = << >> => d = c)  BY <1>2, <1>3, <1>4, <1>5 DEF n, c
<1>7. pos = 8 + d * 92 /\ cap = 8 + c * 92  BY DEF Payload, c, HeaderBytes, NodeBytes
<1> QED  BY <1>6, <1>7 DEF c

(* A decoder reads the view of the node that was written there.            *)
LEMMA NodeRead ==
  ASSUME client \in {"ES", "JNI"}, NEW t, Rooted(t), NEW q \in Nat, NEW i \in Nodes(t),
         Recorded(wire, t, q, i)
  PROVE  Fields(HeaderBytes + q * NodeBytes) = View(t, i)
<1> DEFINE P == PlacesWritten
           from == HeaderBytes + q * NodeBytes
           view == View(t, i)
<1>1. DOMAIN P = FieldNames /\ PlacesRead[client] = P  BY PlacesApart, PlacesAgree
<1>2. view = [f \in FieldNames |-> view[f]]  BY Viewed
<1>3. ASSUME NEW f \in FieldNames PROVE At(from + P[f].at, P[f].width) = view[f]
  <2>1. from + P[f].at \in DOMAIN wire /\ wire[from + P[f].at] = Field(P[f].width, view[f])
    BY DEF Recorded
  <2> HIDE DEF P, from, view
  <2> QED  BY <2>1 DEF At, Field
<1>4. Fields(from) = [f \in FieldNames |-> At(from + P[f].at, P[f].width)]
  BY <1>1 DEF Fields
<1> HIDE DEF P, from, view
<1>5. Fields(from) = view  BY <1>2, <1>3, <1>4
<1> QED  BY <1>5 DEF from, view

-----------------------------------------------------------------------------
(***************************************************************************)
(* The decoder: each frame of its stack is of a node, v has which, and has *)
(* the copies of its first children; R has what is to be read after the    *)
(* node of each frame, so that what is left is that of the top frame.      *)
(***************************************************************************)
Views(t)  == {View(t, i) : i \in Nodes(t)}
Values(t) == {Copies(t)[i] : i \in Nodes(t)}
Frames(t) == [fields : Views(t), children : Seq(Values(t))]

From(s, a) == SubSeq(s, a, Len(s))

FrameOf(t, i, frame) ==
  /\ frame.fields = View(t, i) /\ Len(frame.children) <= Len(t.kids[i])
  /\ \A k \in 1 .. Len(frame.children) : frame.children[k] = Copies(t)[t.kids[i][k]]

(* What is left of the children of a frame, and what is left below it.     *)
Left(t, i, frame, below)  == From(t.kids[i], Len(frame.children) + 1) \o below
After(t, i, frame, below) == From(t.kids[i], Len(frame.children) + 2) \o below

Descends(t, i, frame, j) ==
  LET c == Len(frame.children) + 1 IN c <= Len(t.kids[i]) /\ j = t.kids[i][c]

Stacked(t, ahead, stack, v, R) ==
  LET h == Len(stack) IN
  /\ stack \in Seq(Frames(t)) /\ h > 0
  /\ v[1] = 1 /\ R[0] = << >>
  /\ \A m \in 1 .. h : v[m] \in Nodes(t) /\ R[m - 1] \in Seq(Nodes(t)) /\ FrameOf(t, v[m], stack[m])
  /\ \A m \in 1 .. h - 1 : /\ Descends(t, v[m], stack[m], v[m + 1])
                           /\ R[m] = After(t, v[m], stack[m], R[m - 1])
  /\ ahead = Left(t, v[h], stack[h], R[h - 1])

Stands(t, ahead, stack) == \E v, R : Stacked(t, ahead, stack, v, R)

(* Sequences.                                                              *)
LEMMA FromProperties ==
  ASSUME NEW S, NEW s \in Seq(S), NEW r \in Seq(S), NEW a \in 1 .. Len(s)
  PROVE  /\ From(s, a) \o r # << >> /\ From(s, a) \o r \in Seq(S)
         /\ Head(From(s, a) \o r) = s[a] /\ Tail(From(s, a) \o r) = From(s, a + 1) \o r
<1> DEFINE n == Len(s)
           f == From(s, a)
           g == From(s, a + 1)
           u == f \o r
           w == g \o r
<1>1. n \in Nat  OBVIOUS
<1>2. f \in Seq(S) /\ Len(f) = n - a + 1 /\ \A k \in 1 .. n - a + 1 : f[k] = s[a + k - 1]
  BY <1>1 DEF From
<1>3. g \in Seq(S) /\ Len(g) = n - a /\ \A k \in 1 .. n - a : g[k] = s[a + 1 + k - 1]
  BY <1>1 DEF From
<1>4. Len(r) \in Nat  OBVIOUS
<1> HIDE DEF f, g, n
<1>5. u \in Seq(S) /\ Len(u) = Len(f) + Len(r)
      /\ \A k \in 1 .. Len(f) + Len(r) : u[k] = IF k <= Len(f) THEN f[k] ELSE r[k - Len(f)]
  BY <1>2, ConcatProperties
<1>6. w \in Seq(S) /\ Len(w) = Len(g) + Len(r)
      /\ \A k \in 1 .. Len(g) + Len(r) : w[k] = IF k <= Len(g) THEN g[k] ELSE r[k - Len(g)]
  BY <1>3, ConcatProperties
<1> HIDE DEF u, w
<1>7. a \in Int /\ 1 <= a /\ a <= n  BY <1>1 DEF n
<1>8. Len(u) >= 1 /\ u # << >>  BY <1>1, <1>2, <1>4, <1>5, <1>7
<1>9. Head(u) = s[a]
  <2>1. u[1] = f[1] /\ f[1] = s[a]  BY <1>1, <1>2, <1>4, <1>5, <1>7
  <2> QED  BY <1>5, <1>8, <2>1
<1>10. Tail(u) = w
  <2>1. Tail(u) \in Seq(S) /\ Len(Tail(u)) = Len(u) - 1
        /\ \A k \in 1 .. Len(u) - 1 : Tail(u)[k] = u[k + 1]
    BY <1>5, <1>8
  <2>2. Len(Tail(u)) = Len(w)  BY <1>1, <1>2, <1>3, <1>4, <1>5, <1>6, <1>7, <2>1
  <2>3. ASSUME NEW k \in 1 .. Len(w) PROVE Tail(u)[k] = w[k]
    <3>1. k \in 1 .. Len(u) - 1 /\ Tail(u)[k] = u[k + 1]  BY <2>1, <2>2
    <3>2. CASE k <= Len(g)
      <4>1. k \in 1 .. n - a /\ k + 1 \in 1 .. n - a + 1 /\ k + 1 <= Len(f)
            /\ k + 1 \in 1 .. Len(f) + Len(r) /\ a + (k + 1) - 1 = a + 1 + k - 1
        BY <1>1, <1>2, <1>3, <1>4, <1>7, <3>2
      <4>2. u[k + 1] = f[k + 1] /\ w[k] = g[k]  BY <1>5, <1>6, <3>2, <4>1
      <4>3. f[k + 1] = s[a + (k + 1) - 1] /\ g[k] = s[a + 1 + k - 1]  BY <1>2, <1>3, <4>1
      <4> QED  BY <3>1, <4>1, <4>2, <4>3
    <3>3. CASE ~(k <= Len(g))
      <4>1. k + 1 \in 1 .. Len(f) + Len(r) /\ ~(k + 1 <= Len(f)) /\ (k + 1) - Len(f) = k - Len(g)
            /\ k \in 1 .. Len(g) + Len(r)
        BY <1>1, <1>2, <1>3, <1>4, <1>6, <1>7, <3>3
      <4> QED  BY <1>5, <1>6, <3>1, <3>3, <4>1
    <3> QED  BY <3>2, <3>3
  <2> QED  BY <1>6, <2>1, <2>2, <2>3, SeqEqual
<1> QED  BY <1>5, <1>8, <1>9, <1>10 DEF u, w, f, g

LEMMA FromEnds ==
  ASSUME NEW S, NEW s \in Seq(S), NEW r \in Seq(S)
  PROVE  /\ From(s, 1) \o r = s \o r
         /\ From(s, Len(s) + 1) \o r = r
         /\ \A a \in Nat \ {0} : From(s, a) \o r \in Seq(S)
<1>1. Len(s) \in Nat  OBVIOUS
<1>2. From(s, 1) = s
  <2>1. From(s, 1) \in Seq(S) /\ Len(From(s, 1)) = Len(s)
        /\ \A k \in 1 .. Len(s) : From(s, 1)[k] = s[k]
    BY <1>1 DEF From
  <2> QED  BY <2>1, SeqEqual
<1>3. From(s, Len(s) + 1) = << >>  BY <1>1 DEF From
<1>4. << >> \o r = r  BY ConcatEmptySeq
<1>5. ASSUME NEW a \in Nat \ {0} PROVE From(s, a) \o r \in Seq(S)
  <2>1. From(s, a) \in Seq(S)  BY <1>1 DEF From
  <2> QED  BY <2>1
<1> QED  BY <1>2, <1>3, <1>4, <1>5


(* A frame that has its children is the copy of its node.                  *)
LEMMA FrameDone ==
  ASSUME NEW t, Rooted(t), NEW i \in Nodes(t), NEW frame \in Frames(t), FrameOf(t, i, frame),
         Len(frame.children) = Len(t.kids[i])
  PROVE  Finish(frame.fields, frame.children) = Copies(t)[i]
<1> DEFINE s == t.kids[i]
           c == frame.children
           made == [k \in DOMAIN s |-> Copies(t)[s[k]]]
<1>1. s \in Seq(Nodes(t))  BY DEF Rooted
<1>2. c \in Seq(Values(t)) /\ frame.fields = View(t, i)  BY DEF Frames, FrameOf
<1>3. Len(s) \in Nat /\ DOMAIN s = 1 .. Len(s) /\ DOMAIN c = 1 .. Len(s) /\ c \in [1 .. Len(s) -> Values(t)]
  BY <1>1, <1>2
<1>4. \A k \in 1 .. Len(s) : c[k] = Copies(t)[s[k]]  BY DEF FrameOf
<1> HIDE DEF c, s
<1>5. c = made  BY <1>3, <1>4
<1>6. Copies(t)[i] = Finish(View(t, i), made)  BY CopiesDefined DEF s
<1> QED  BY <1>2, <1>5, <1>6 DEF c

(* Its parts, and what a child more does to it.                            *)
LEMMA FrameAdopts ==
  ASSUME NEW t, Rooted(t), NEW i \in Nodes(t), NEW frame \in Frames(t), FrameOf(t, i, frame),
         NEW j, Descends(t, i, frame, j), NEW g, g = [frame EXCEPT !.children = Append(@, Copies(t)[j])],
         NEW below \in Seq(Nodes(t))
  PROVE  /\ g \in Frames(t) /\ FrameOf(t, i, g) /\ Left(t, i, g, below) = After(t, i, frame, below)
         /\ j \in Nodes(t)
<1> DEFINE s == t.kids[i]
           c == frame.children
           node == Copies(t)[j]
           d == Append(c, node)
<1>1. s \in Seq(Nodes(t)) /\ Len(s) \in Nat  BY DEF Rooted
<1>2. /\ c \in Seq(Values(t)) /\ Len(c) \in Nat /\ frame.fields = View(t, i)
      /\ frame = [fields |-> frame.fields, children |-> c] /\ frame.fields \in Views(t)
  BY DEF Frames, FrameOf
<1>3. Len(c) + 1 <= Len(s) /\ j = s[Len(c) + 1]  BY DEF Descends
<1>4. j \in Nodes(t)
  <2>1. Len(c) + 1 \in 1 .. Len(s)  BY <1>1, <1>2, <1>3
  <2> HIDE DEF s, c
  <2> QED  BY <1>1, <1>3, <2>1
<1>5. node \in Values(t)  BY <1>4 DEF Values
<1>6. g.fields = frame.fields /\ g.children = d /\ g = [fields |-> frame.fields, children |-> d]
  BY <1>2
<1> HIDE DEF node
<1>7. d \in Seq(Values(t)) /\ Len(d) = Len(c) + 1 /\ d[Len(c) + 1] = node
      /\ \A k \in 1 .. Len(c) : d[k] = c[k]
  <2> HIDE DEF c
  <2> QED  BY <1>2, <1>5
<1>8. \A k \in 1 .. Len(c) : c[k] = Copies(t)[s[k]]  BY DEF FrameOf
<1> HIDE DEF c, d, s
<1>9. g \in Frames(t)  BY <1>2, <1>6, <1>7 DEF Frames
<1>10. \A k \in 1 .. Len(d) : d[k] = Copies(t)[s[k]]
  <2> TAKE k \in 1 .. Len(d)
  <2>1. CASE k = Len(c) + 1  BY <1>3, <1>7, <2>1 DEF node
  <2>2. CASE k # Len(c) + 1
    <3>1. k \in 1 .. Len(c)  BY <1>2, <1>7, <2>2
    <3> QED  BY <1>7, <1>8, <3>1
  <2> QED  BY <2>1, <2>2
<1>11. FrameOf(t, i, g)  BY <1>2, <1>3, <1>6, <1>7, <1>10 DEF FrameOf, s
<1>12. Len(g.children) + 1 = Len(c) + 2  BY <1>2, <1>6, <1>7
<1>13. Left(t, i, g, below) = After(t, i, frame, below)
  BY <1>12 DEF Left, After, c
<1> QED  BY <1>4, <1>9, <1>11, <1>13

(* What is ahead of a frame that misses a child begins with it.             *)
LEMMA FrameMisses ==
  ASSUME NEW t, Rooted(t), NEW i \in Nodes(t), NEW frame \in Frames(t),
         Len(frame.children) < Len(t.kids[i]), NEW below \in Seq(Nodes(t))
  PROVE  LET ahead == Left(t, i, frame, below)
             j    == Head(ahead)
         IN  /\ ahead # << >> /\ ahead \in Seq(Nodes(t)) /\ Descends(t, i, frame, j) /\ j \in Nodes(t)
             /\ Tail(ahead) = After(t, i, frame, below)
             /\ After(t, i, frame, below) \in Seq(Nodes(t))
<1> DEFINE s == t.kids[i]
           n == Len(frame.children)
<1>1. s \in Seq(Nodes(t)) /\ Len(s) \in Nat  BY DEF Rooted
<1>2. n \in Nat  BY DEF Frames
<1> HIDE DEF s, n
<1>3. n + 1 \in 1 .. Len(s)  BY <1>1, <1>2 DEF s, n
<1>4. /\ From(s, n + 1) \o below # << >> /\ From(s, n + 1) \o below \in Seq(Nodes(t))
      /\ Head(From(s, n + 1) \o below) = s[n + 1]
      /\ Tail(From(s, n + 1) \o below) = From(s, (n + 1) + 1) \o below
  BY <1>1, <1>3, FromProperties
<1>5. (n + 1) + 1 = n + 2 /\ n + 2 \in Nat \ {0} /\ n + 1 <= Len(s)  BY <1>2, <1>3
<1>6. From(s, n + 2) \o below \in Seq(Nodes(t))  BY <1>1, <1>5, FromEnds
<1>7. s[n + 1] \in Nodes(t)  BY <1>1, <1>3
<1> QED  BY <1>4, <1>5, <1>6, <1>7 DEF Left, After, Descends, s, n

(* A new frame misses all of its children.                                 *)
LEMMA FrameOpens ==
  ASSUME NEW t, Rooted(t), NEW i \in Nodes(t), NEW below \in Seq(Nodes(t)),
         NEW frame, frame = [fields |-> View(t, i), children |-> << >>]
  PROVE  /\ frame \in Frames(t) /\ FrameOf(t, i, frame)
         /\ Left(t, i, frame, below) = t.kids[i] \o below
<1>1. t.kids[i] \in Seq(Nodes(t)) /\ Len(t.kids[i]) \in Nat  BY DEF Rooted
<1>2. View(t, i) \in Views(t) /\ << >> \in Seq(Values(t))  BY DEF Views
<1>3. frame.fields = View(t, i) /\ frame.children = << >> /\ Len(frame.children) = 0  OBVIOUS
<1>4. frame \in Frames(t)  BY <1>2 DEF Frames
<1>5. FrameOf(t, i, frame)  BY <1>1, <1>3 DEF FrameOf
<1> DEFINE s == t.kids[i]
<1>6. From(s, 0 + 1) \o below = s \o below
  <2>1. s \in Seq(Nodes(t))  BY <1>1
  <2> HIDE DEF s
  <2>2. From(s, 1) \o below = s \o below  BY <2>1, FromEnds
  <2>3. 0 + 1 = 1  OBVIOUS
  <2> QED  BY ONLY <2>2, <2>3
<1>7. Left(t, i, frame, below) = From(t.kids[i], 0 + 1) \o below  BY <1>3 DEF Left
<1> QED  BY <1>4, <1>5, <1>6, <1>7

-----------------------------------------------------------------------------
(* The root.                                                               *)
LEMMA StackBegins ==
  ASSUME NEW t, Rooted(t), NEW stack, stack = <<[fields |-> View(t, 1), children |-> << >>]>>
  PROVE  \E v, R : Stacked(t, t.kids[1] \o << >>, stack, v, R)
<1> DEFINE frame == [fields |-> View(t, 1), children |-> << >>]
           v == [m \in {1} |-> 1]
           R == [m \in {0} |-> << >>]
           none == << >>
<1>1. 1 \in Nodes(t) /\ none \in Seq(Nodes(t))  BY DEF Rooted
<1>2. frame \in Frames(t) /\ FrameOf(t, 1, frame) /\ Left(t, 1, frame, none) = t.kids[1] \o none
  <2> HIDE DEF none
  <2> QED  BY <1>1, FrameOpens
<1>3. v[1] = 1 /\ R[0] = none  OBVIOUS
<1> HIDE DEF frame
<1>4. stack \in Seq(Frames(t)) /\ Len(stack) = 1 /\ stack[1] = frame  BY <1>2 DEF frame
<1> HIDE DEF v, R
<1>5. 1 .. 1 - 1 = {} /\ \A m \in 1 .. 1 : m = 1 /\ m - 1 = 0  OBVIOUS
<1>6. Stacked(t, t.kids[1] \o none, stack, v, R)
  <2>1. \A m \in 1 .. 1 : v[m] \in Nodes(t) /\ R[m - 1] \in Seq(Nodes(t)) /\ FrameOf(t, v[m], stack[m])
    BY <1>1, <1>2, <1>3, <1>4, <1>5
  <2>2. t.kids[1] \o none = Left(t, v[1], stack[1], R[1 - 1])  BY <1>2, <1>3, <1>4
  <2> HIDE DEF none
  <2> QED  BY <1>3, <1>4, <1>5, <2>1, <2>2 DEF Stacked, none
<1> QED  BY <1>6

(* The parts of a stack that its top and what is below it have.            *)
LEMMA StackTop ==
  ASSUME NEW t, Rooted(t), NEW ahead, NEW stack, NEW v, NEW R, Stacked(t, ahead, stack, v, R),
         NEW h, h = Len(stack)
  PROVE  /\ h \in Nat \ {0} /\ stack[h] \in Frames(t) /\ v[h] \in Nodes(t)
         /\ R[h - 1] \in Seq(Nodes(t)) /\ FrameOf(t, v[h], stack[h])
         /\ ahead = Left(t, v[h], stack[h], R[h - 1])
<1>1. stack \in Seq(Frames(t)) /\ h \in Nat \ {0} /\ h \in 1 .. h  BY DEF Stacked
<1>2. stack[h] \in Frames(t)  BY <1>1
<1> QED  BY <1>1, <1>2 DEF Stacked

(* A leaf goes to the top frame, a box on it.                              *)
LEMMA StackReads ==
  ASSUME NEW t, Rooted(t), NEW ahead, NEW stack, NEW v, NEW R, Stacked(t, ahead, stack, v, R),
         NEW h, h = Len(stack), NEW c, c = stack[h].children,
         Len(c) < Len(t.kids[v[h]])
  PROVE  LET j == Head(ahead) IN
         /\ ahead # << >> /\ j \in Nodes(t) /\ Tail(ahead) \in Seq(Nodes(t))
         /\ t.kids[j] = << >> =>
              \E w, Q : Stacked(t, Tail(ahead), [stack EXCEPT ![h].children = Append(@, Copies(t)[j])], w, Q)
         /\ \E w, Q : Stacked(t, t.kids[j] \o Tail(ahead),
                              Append(stack, [fields |-> View(t, j), children |-> << >>]), w, Q)
<1> DEFINE j == Head(ahead)
           top == stack[h]
           i == v[h]
           below == R[h - 1]
           after == After(t, i, top, below)
<1>1. /\ h \in Nat \ {0} /\ top \in Frames(t) /\ i \in Nodes(t)
      /\ below \in Seq(Nodes(t)) /\ FrameOf(t, i, top)
      /\ ahead = Left(t, i, top, below)
  BY StackTop
<1>2. /\ stack \in Seq(Frames(t)) /\ v[1] = 1 /\ R[0] = << >>
      /\ \A m \in 1 .. h : v[m] \in Nodes(t) /\ R[m - 1] \in Seq(Nodes(t)) /\ FrameOf(t, v[m], stack[m])
      /\ \A m \in 1 .. h - 1 : /\ Descends(t, v[m], stack[m], v[m + 1])
                               /\ R[m] = After(t, v[m], stack[m], R[m - 1])
  BY DEF Stacked
<1> HIDE DEF top, i, below, after, j
<1>3. Len(top.children) < Len(t.kids[i])  BY DEF top, i
<1>4. /\ ahead # << >> /\ j \in Nodes(t) /\ Tail(ahead) = after /\ after \in Seq(Nodes(t))
      /\ Descends(t, i, top, j)
  BY <1>1, <1>3, FrameMisses DEF j, after
<1>5. ASSUME t.kids[j] = << >>
      PROVE  \E w, Q : Stacked(t, after, [stack EXCEPT ![h].children = Append(@, Copies(t)[j])], w, Q)
  <2> DEFINE g == [top EXCEPT !.children = Append(@, Copies(t)[j])]
             new == [stack EXCEPT ![h].children = Append(@, Copies(t)[j])]
  <2>1. g \in Frames(t) /\ FrameOf(t, i, g) /\ Left(t, i, g, below) = after
    BY <1>1, <1>4, FrameAdopts DEF after
  <2>2. h \in DOMAIN stack /\ h \in 1 .. h /\ stack \in [1 .. h -> Frames(t)]  BY <1>1, <1>2
  <2>3. new = [stack EXCEPT ![h] = g]  BY <2>2 DEF top
  <2> HIDE DEF g, new
  <2>4. new \in Seq(Frames(t)) /\ Len(new) = h /\ new[h] = g
        /\ \A m \in 1 .. h - 1 : new[m] = stack[m]
    <3>1. new \in Seq(Frames(t)) /\ Len(new) = Len(stack)
          /\ \A m \in 1 .. Len(stack) : new[m] = IF m = h THEN g ELSE stack[m]
      BY <1>2, <2>1, <2>2, <2>3, ExceptSeq
    <3>2. \A m \in 1 .. h - 1 : m \in 1 .. h /\ m # h  BY <1>1
    <3> QED  BY <2>2, <3>1, <3>2
  <2>5. \A m \in 1 .. h : FrameOf(t, v[m], new[m])
    <3> TAKE m \in 1 .. h
    <3>1. m = h \/ m \in 1 .. h - 1  BY <1>1
    <3> QED  BY <1>2, <2>1, <2>4, <3>1 DEF i
  <2>6. Stacked(t, after, new, v, R)
    BY <1>1, <1>2, <2>1, <2>4, <2>5 DEF Stacked, i, below
  <2> QED  BY <2>6 DEF new
<1>6. \E w, Q : Stacked(t, t.kids[j] \o after,
                        Append(stack, [fields |-> View(t, j), children |-> << >>]), w, Q)
  <2> DEFINE g == [fields |-> View(t, j), children |-> << >>]
             new == Append(stack, g)
             w == [m \in 1 .. h + 1 |-> IF m = h + 1 THEN j ELSE v[m]]
             Q == [m \in 0 .. h |-> IF m = h THEN after ELSE R[m]]
  <2>1. g \in Frames(t) /\ FrameOf(t, j, g) /\ Left(t, j, g, after) = t.kids[j] \o after
    BY <1>4, FrameOpens
  <2> HIDE DEF g
  <2>2. new \in Seq(Frames(t)) /\ Len(new) = h + 1 /\ new[h + 1] = g
        /\ \A m \in 1 .. h : new[m] = stack[m]
    BY <1>2, <2>1
  <2>3. /\ w[h + 1] = j /\ \A m \in 1 .. h : w[m] = v[m]
        /\ Q[h] = after /\ \A m \in 0 .. h - 1 : Q[m] = R[m]
    BY <1>1
  <2> HIDE DEF new, w, Q
  <2>4. w[1] = 1 /\ Q[0] = << >>  BY <1>1, <1>2, <2>3
  <2>5. \A m \in 1 .. h + 1 : w[m] \in Nodes(t) /\ Q[m - 1] \in Seq(Nodes(t)) /\ FrameOf(t, w[m], new[m])
    <3> TAKE m \in 1 .. h + 1
    <3>1. CASE m = h + 1
      <4>1. m - 1 = h  BY <1>1, <3>1
      <4> QED  BY <1>4, <2>1, <2>2, <2>3, <3>1, <4>1
    <3>2. CASE m # h + 1
      <4>1. m \in 1 .. h /\ m - 1 \in 0 .. h - 1  BY <1>1, <3>2
      <4> QED  BY <1>2, <2>2, <2>3, <4>1
    <3> QED  BY <3>1, <3>2
  <2>6. ASSUME NEW m \in 1 .. (h + 1) - 1
        PROVE  Descends(t, w[m], new[m], w[m + 1]) /\ Q[m] = After(t, w[m], new[m], Q[m - 1])
    <3>1. CASE m = h
      <4>1. /\ w[m] = i /\ new[m] = top /\ w[m + 1] = j /\ Q[m] = after /\ Q[m - 1] = below
        <5>1. m \in 1 .. h /\ m - 1 \in 0 .. h - 1  BY <1>1, <3>1
        <5> QED  BY <2>2, <2>3, <3>1, <5>1 DEF i, top, below
      <4> QED  BY <1>4, <4>1 DEF after
    <3>2. CASE m # h
      <4>1. m \in 1 .. h - 1 /\ m \in 1 .. h /\ m + 1 \in 1 .. h /\ m - 1 \in 0 .. h - 1 /\ m \in 0 .. h - 1
        BY <1>1, <3>2
      <4>2. w[m] = v[m] /\ new[m] = stack[m] /\ w[m + 1] = v[m + 1] /\ Q[m] = R[m] /\ Q[m - 1] = R[m - 1]
        BY <2>2, <2>3, <4>1
      <4> QED  BY <1>2, <4>1, <4>2
    <3> QED  BY <3>1, <3>2
  <2>7. t.kids[j] \o after = Left(t, w[h + 1], new[h + 1], Q[(h + 1) - 1])
    <3>1. (h + 1) - 1 = h  BY <1>1
    <3> QED  BY <2>1, <2>2, <2>3, <3>1
  <2>8. Stacked(t, t.kids[j] \o after, new, w, Q)
    BY <1>1, <2>2, <2>4, <2>5, <2>6, <2>7 DEF Stacked
  <2> QED  BY <2>8 DEF new, g
<1> QED  BY <1>4, <1>5, <1>6 DEF j

(* A frame that is complete goes to the one below it, as the copy of its   *)
(* node; without one, the copy is that of the tree.                        *)
Returns(t, ahead, node, down) ==
  /\ down = << >> => ahead = << >> /\ node = Copied(t)
  /\ down # << >> => Stands(t, ahead, Adopt(down, node))

LEMMA StackReturns ==
  ASSUME NEW t, Rooted(t), NEW ahead, NEW stack, NEW v, NEW R, Stacked(t, ahead, stack, v, R),
         NEW h, h = Len(stack), ~(Len(stack[h].children) < Len(t.kids[v[h]])),
         NEW node, node = Finish(stack[h].fields, stack[h].children),
         NEW down, down = SubSeq(stack, 1, h - 1)
  PROVE  Returns(t, ahead, node, down)
<1> DEFINE top == stack[h]
           i == v[h]
           below == R[h - 1]
           s == t.kids[i]
<1>1. /\ h \in Nat \ {0} /\ top \in Frames(t) /\ i \in Nodes(t)
      /\ below \in Seq(Nodes(t)) /\ FrameOf(t, i, top)
      /\ ahead = Left(t, i, top, below)
  BY StackTop
<1>2. /\ stack \in Seq(Frames(t)) /\ v[1] = 1 /\ R[0] = << >>
      /\ \A m \in 1 .. h : v[m] \in Nodes(t) /\ R[m - 1] \in Seq(Nodes(t)) /\ FrameOf(t, v[m], stack[m])
      /\ \A m \in 1 .. h - 1 : /\ Descends(t, v[m], stack[m], v[m + 1])
                               /\ R[m] = After(t, v[m], stack[m], R[m - 1])
  BY DEF Stacked
<1>3. s \in Seq(Nodes(t)) /\ Len(s) \in Nat  BY <1>1 DEF Rooted
<1>4. Len(top.children) = Len(s)
  <2>1. Len(top.children) \in Nat /\ Len(top.children) <= Len(s)  BY <1>1 DEF Frames, FrameOf
  <2> QED  BY <1>3, <2>1
<1> HIDE DEF top, i, below
<1>5. node = Copies(t)[i]  BY <1>1, <1>4, FrameDone DEF top
<1>6. ahead = below
  <2>1. From(s, Len(s) + 1) \o below = below
    <3>1. below \in Seq(Nodes(t)) /\ s \in Seq(Nodes(t))  BY <1>1, <1>3
    <3> HIDE DEF s
    <3> QED  BY ONLY <3>1, FromEnds
  <2> QED  BY <1>1, <1>4, <2>1 DEF Left
<1>7. Len(down) = h - 1 /\ down \in Seq(Frames(t)) /\ \A m \in 1 .. h - 1 : down[m] = stack[m]
  <2> HIDE DEF s
  <2> QED  BY <1>1, <1>2
<1>8. ASSUME down = << >> PROVE ahead = << >> /\ node = Copied(t)
  <2>1. h = 1
    <3>1. Len(down) = 0  BY ONLY <1>8
    <3> QED  BY ONLY <1>1, <1>7, <3>1
  <2>2. below = << >> /\ i = 1  BY <1>2, <2>1 DEF below, i
  <2> QED  BY <1>5, <1>6, <2>2, CopiesDefined
<1>9. ASSUME down # << >>
      PROVE  \E w, Q : Stacked(t, ahead, [down EXCEPT ![Len(down)].children = Append(@, node)], w, Q)
  <2> DEFINE l == h - 1
             u == stack[l]
             k == v[l]
             g == [u EXCEPT !.children = Append(@, Copies(t)[i])]
             new == [down EXCEPT ![l].children = Append(@, node)]
  <2>1. h > 1
    <3>1. Len(down) # 0  BY <1>7, <1>9
    <3> QED  BY <1>1, <1>7, <3>1
  <2>2. l \in Nat \ {0} /\ l \in 1 .. h - 1 /\ l \in 1 .. h /\ l + 1 = h /\ Len(down) = l
    BY <1>1, <1>7, <2>1
  <2>3. u \in Frames(t) /\ k \in Nodes(t) /\ FrameOf(t, k, u) /\ R[l - 1] \in Seq(Nodes(t))
    BY <1>2, <2>2
  <2>4. Descends(t, k, u, i) /\ below = After(t, k, u, R[l - 1])  BY <1>2, <2>2 DEF i, below
  <2> HIDE DEF u, k
  <2>5. g \in Frames(t) /\ FrameOf(t, k, g) /\ Left(t, k, g, R[l - 1]) = below
    BY <2>3, <2>4, FrameAdopts
  <2>6. l \in 1 .. Len(down) /\ down[l] = u /\ l \in DOMAIN down  BY <1>7, <2>2 DEF u
  <2>7. new = [down EXCEPT ![l] = g]  BY <1>5, <1>7, <2>6
  <2> HIDE DEF g, new, l
  <2>8. new \in Seq(Frames(t)) /\ Len(new) = l /\ new[l] = g
        /\ \A m \in 1 .. l - 1 : new[m] = stack[m]
    <3>1. new \in Seq(Frames(t)) /\ Len(new) = Len(down)
          /\ \A m \in 1 .. Len(down) : new[m] = IF m = l THEN g ELSE down[m]
      <4>1. down \in Seq(Frames(t)) /\ l \in 1 .. Len(down) /\ g \in Frames(t)  BY ONLY <1>7, <2>5, <2>6
      <4> QED  BY ONLY <4>1, <2>7, ExceptSeq
    <3>2. \A m \in 1 .. l - 1 : m \in 1 .. l /\ m # l /\ m \in 1 .. h - 1  BY <2>2
    <3> QED  BY <1>7, <2>2, <3>1, <3>2
  <2>9. \A m \in 1 .. l : v[m] \in Nodes(t) /\ R[m - 1] \in Seq(Nodes(t)) /\ FrameOf(t, v[m], new[m])
    <3> TAKE m \in 1 .. l
    <3>1. m \in 1 .. h /\ (m = l \/ m \in 1 .. l - 1)  BY <2>2
    <3> QED  BY <1>2, <2>5, <2>8, <3>1 DEF k
  <2>10. \A m \in 1 .. l - 1 : /\ Descends(t, v[m], new[m], v[m + 1])
                               /\ R[m] = After(t, v[m], new[m], R[m - 1])
    <3> TAKE m \in 1 .. l - 1
    <3>1. m \in 1 .. h - 1  BY <2>2
    <3> QED  BY <1>2, <2>8, <3>1
  <2>11. ahead = Left(t, v[l], new[l], R[l - 1])  BY <1>6, <2>5, <2>8 DEF k
  <2>12. Stacked(t, ahead, new, v, R)
    BY <1>2, <2>2, <2>8, <2>9, <2>10, <2>11 DEF Stacked
  <2> QED  BY <2>2, <2>12 DEF new
<1> QED  BY <1>8, <1>9 DEF Stands, Adopt, Returns

-----------------------------------------------------------------------------
(***************************************************************************)
(* The answer on its way: what the client has of it at each place of its   *)
(* call, what the payload has of it, and what the decoder made of that.    *)
(***************************************************************************)
HasAnswer == tree # << >> \/ error # << >>

Ended ==
  \/ result = Failed /\ starved
  \/ given = mode /\ HasAnswer /\ result = Answered

Answering ==
  /\ tree = << >> \/ \E t \in Trees : tree = <<t>>
  /\ error = << >> \/ \E e \in Errors : error = <<e>>
  /\ mode \in Members(Modes) /\ given \in Members(Modes) \cup {""} /\ starved \in BOOLEAN
  /\ heap \subseteq {"SOURCE", "HANDLE", "TREE", "DATA", "ELEMENTS", "STREAM", "BUFFER", "DUMP"}
  /\ client = "CLI" => result.kind \in {"NONE", "DUMP"}
  /\ client # "CLI" =>
       /\ pc \in {"compiled", "write", "written", "decode", "copy", "copied"} => given = mode /\ HasAnswer
       /\ pc = "refused" => starved
       /\ pc \in {"finally", "done"} => Ended

PayloadWhole(T) ==
  LET n == Count(tree[1]) IN
  tree # << >> /\ Payload(wire, position, capacity, tree[1], T, n) /\ T[n] = << >>

ErrorWhole ==
  error # << >> /\ wire = LaidError(error[1]) /\ position = ErrorBytes + error[1].message

Writing == tree # << >> /\ \E d \in Nat : \E T : Payload(wire, position, capacity, tree[1], T, d) /\ T[d] = todo

Decoding ==
  \E T : /\ PayloadWhole(T)
         /\ \E d \in 1 .. Count(tree[1]) : \E v, R :
              /\ Stacked(tree[1], T[d], reader.stack, v, R)
              /\ reader.position = HeaderBytes + d * NodeBytes
              /\ reader.decoded = d /\ reader.declared = Count(tree[1])

Carrying ==
  client \in {"ES", "JNI"} =>
    /\ pc = "write" => Writing
    /\ pc \in {"written", "copy", "copied"} => ErrorWhole \/ \E T : PayloadWhole(T)
    /\ pc = "decode" => Decoding

Early == {"start", "handle", "read", "compile", "compiled"}

Measuring ==
  /\ capacity \in 0 .. SizeMax /\ position \in 0 .. capacity
  /\ reader = [position |-> reader.position, decoded |-> reader.decoded,
               declared |-> reader.declared, stack |-> reader.stack]
  /\ reader.position \in 0 .. position /\ reader.decoded \in Nat
  /\ pc \in Early => reader.position = 0

Counting ==
  /\ index \in Nat \ {0} /\ exit \in -1 .. 2 /\ broken \in BOOLEAN
  /\ left \in 0 .. MaxInput /\ room \in 0 .. RoomMax /\ used \in 0 .. room

Faithful == Answering /\ Carrying /\ Measuring /\ Counting

LEMMA TreeRooted ==
  ASSUME Answering, tree # << >>
  PROVE  Rooted(tree[1]) /\ Len(tree) = 1 /\ tree[1] \in Trees
<1>1. PICK t \in Trees : tree = <<t>>  BY DEF Answering
<1> QED  BY <1>1, TreesRooted

LEMMA ErrorTyped ==
  ASSUME Answering, error # << >>
  PROVE  LET e == error[1] IN
         /\ e.status \in Members(Statuses) /\ e.message \in Nat /\ e.ranged \in BOOLEAN
         /\ ErrorBytes + e.message <= SizeMax /\ SizeMax \in Nat /\ Len(error) = 1
<1>1. PICK e \in Errors : error = <<e>>  BY DEF Answering
<1> QED  BY <1>1, EngineAssumption, WireAssumption

(* The modes cross as numbers and come back as they were.                  *)
LEMMA ModeCrosses ==
  ASSUME mode \in Members(Modes) PROVE BridgeMode(NativeMode(mode)) = mode
<1>1. Code(Modes, mode) \in DOMAIN Modes /\ Modes[Code(Modes, mode)] = mode  BY Coded
<1> DEFINE c == Code(Modes, mode)
<1>2. c \in 1 .. 3 /\ Modes[c] = mode /\ NativeMode(mode) = c - 1  BY <1>1 DEF Modes, NativeMode
<1> HIDE DEF c
<1>3. /\ c = 1 \/ c = 2 \/ c = 3
      /\ Modes[1] = "DOCUMENT" /\ Modes[2] = "MATH_INLINE" /\ Modes[3] = "MATH_DISPLAY"
  BY <1>2 DEF Modes
<1> QED  BY <1>2, <1>3 DEF BridgeMode

LEMMA FaithfulBegins == Init => Faithful
<1> SUFFICES ASSUME Init PROVE Faithful OBVIOUS
<1>1. /\ client \in {"ES", "JNI", "SWIFT", "CLI"} /\ pc = "start" /\ heap = {} /\ starved = FALSE /\ given = ""
      /\ tree = << >> /\ error = << >> /\ mode \in Members(Modes) /\ result.kind = "NONE"
  BY ModesNamed DEF Init, NoResult
<1>2. Answering /\ Carrying  BY <1>1 DEF Answering, Carrying
<1>3. /\ position = 0 /\ capacity = 0
      /\ reader = [position |-> 0, decoded |-> 0, declared |-> 0, stack |-> << >>]
      /\ index = 1 /\ left = 0 /\ used = 0 /\ room = 0 /\ broken = FALSE /\ exit = -1
  BY DEF Init, WireInit, CommandInit
<1>4. Measuring  BY <1>3, WireAssumption DEF Measuring
<1>5. Counting
  <2>1. MaxInput \in Nat /\ RoomMax \in Nat  BY CommandLineAssumption, Zenon
  <2>2. broken \in BOOLEAN  BY <1>3
  <2>3. /\ index \in Nat \ {0} /\ exit \in -1 .. 2
        /\ left \in 0 .. MaxInput /\ room \in 0 .. RoomMax /\ used \in 0 .. room
    BY <1>3, <2>1
  <2> QED  BY <2>2, <2>3 DEF Counting
<1> QED  BY <1>2, <1>4, <1>5 DEF Faithful

(* What no step of a kind changes.                                         *)
LEMMA CountingStays ==
  ASSUME Counting, UNCHANGED commandVars PROVE Counting'
BY DEF Counting, commandVars

LEMMA MeasuringStays ==
  ASSUME Measuring, UNCHANGED wireVars, pc' \in Early => pc \in Early
  PROVE  Measuring'
BY DEF Measuring, wireVars, Early

LEMMA WholeStays ==
  ASSUME tree' = tree, error' = error, wire' = wire, position' = position, capacity' = capacity
  PROVE  /\ \A T : PayloadWhole(T)' <=> PayloadWhole(T)
         /\ ErrorWhole' <=> ErrorWhole
BY DEF PayloadWhole, ErrorWhole

-----------------------------------------------------------------------------
(* The command line: its numbers, and an answer that no binding takes.     *)
LEMMA CommandFaithful ==
  ASSUME Faithful, IInv, Commanded, Command, UNCHANGED wireVars
  PROVE  Faithful'
<1>1. client = "CLI" /\ client' = "CLI"
  BY DEF Command, NextArgument, Parsing, OpenInput, GrowBuffer, ReadChunk, Reading, CommandCompile, FreeSource,
    MakeDump, Output, commandVars
<1>2. Answering'
  <2>1. CASE NextArgument
    <3>1. mode' = mode \/ \E word \in DOMAIN ModeNames : mode' = ModeNames[word]
      BY <2>1 DEF NextArgument, InformOption, ModeOption, FileArgument, UnknownOption
    <3>2. UNCHANGED <<heap, starved, given, tree, error, result>>  BY <2>1 DEF NextArgument, Parsing
    <3> QED  BY <1>1, <3>1, <3>2, ModesNamed DEF Answering, Faithful
  <2>2. CASE OpenInput \/ GrowBuffer \/ ReadChunk
    <3>1. UNCHANGED <<mode, given, tree, error, result>> /\ (starved' = starved \/ starved' = TRUE)
      BY <2>2 DEF OpenInput, GrowBuffer, ReadChunk, Reading
    <3>2. heap' \subseteq heap \cup {"STREAM", "BUFFER"}
      BY <2>2 DEF OpenInput, GrowBuffer, ReadChunk, ReadFailed, EndOfInput
    <3> QED  BY <1>1, <3>1, <3>2 DEF Answering, Faithful
  <2>3. CASE CommandCompile
    BY <1>1, <2>3 DEF CommandCompile, EngineCompile, Answering, Faithful
  <2>4. CASE FreeSource \/ MakeDump \/ Output
    <3>1. /\ UNCHANGED <<mode, given, tree, error>> /\ (starved' = starved \/ starved' = TRUE)
          /\ heap' \subseteq heap \cup {"DUMP"} /\ (result' = result \/ result'.kind = "DUMP")
      BY <2>4 DEF FreeSource, MakeDump, Output
    <3> QED  BY <1>1, <3>1 DEF Answering, Faithful
  <2> QED  BY <2>1, <2>2, <2>3, <2>4 DEF Command
<1>3. Carrying'  BY <1>1 DEF Carrying
<1>4. Measuring'
  <2>1. CASE FreeSource \/ MakeDump \/ Output
    <3>1. pc' \notin Early  BY <2>1 DEF Early, FreeSource, MakeDump, Output, Exit
    <3> QED  BY <3>1, MeasuringStays DEF Faithful
  <2>2. CASE ~(FreeSource \/ MakeDump \/ Output)
    <3>1. pc \in Early  BY <2>2 DEF Command, Early, NextArgument, OpenInput, GrowBuffer, ReadChunk, CommandCompile
    <3> QED  BY <3>1, MeasuringStays DEF Faithful
  <2> QED  BY <2>1, <2>2
<1>5. Counting'
  <2> /\ MaxInput \in Nat /\ Margin \in Nat \ {0} /\ RoomMax \in Nat /\ 2 * Margin <= RoomMax
    BY CommandLineAssumption, Zenon
  <2> USE DEF Counting, Faithful
  <2>1. CASE NextArgument
    BY <2>1 DEF NextArgument, Parsing, InformOption, ModeOption, FileArgument, UnknownOption, Exit
  <2>2. CASE OpenInput
    BY <2>2 DEF OpenInput, Exit
  <2>3. CASE GrowBuffer
    <3>1. room * 2 <= RoomMax \/ ~Doubles  BY DEF Doubles
    <3> QED  BY <2>3, <3>1 DEF GrowBuffer, ReadFailed, Exit, Reading
  <2>4. CASE ReadChunk
    <3>1. PICK n \in 0 .. left :
            /\ n <= room - used /\ used' = used + n /\ left' = left - n
            /\ (exit' = exit \/ exit' = 2)
      BY <2>4 DEF ReadChunk, Got, EndOfInput, ReadFailed, Exit
    <3>2. UNCHANGED <<index, room>>  BY <2>4 DEF ReadChunk, Reading
    <3>3. broken' \in BOOLEAN  BY <2>4, Zenon DEF ReadChunk
    <3>4. /\ index' \in Nat \ {0} /\ exit' \in -1 .. 2
          /\ left' \in 0 .. MaxInput /\ room' \in 0 .. RoomMax /\ used' \in 0 .. room'
      BY <3>1, <3>2
    <3> QED  BY <3>3, <3>4
  <2>5. CASE CommandCompile
    BY <2>5 DEF CommandCompile, commandVars
  <2>6. CASE FreeSource \/ MakeDump \/ Output
    BY <2>6 DEF FreeSource, MakeDump, Output, Exit
  <2> QED  BY <2>1, <2>2, <2>3, <2>4, <2>5, <2>6 DEF Command
<1> QED  BY <1>2, <1>3, <1>4, <1>5 DEF Faithful

-----------------------------------------------------------------------------
(* The steps before an answer, and those that give a call up.              *)
LEMMA CallFaithful ==
  ASSUME Faithful, IInv, UNCHANGED commandVars,
         BridgeCompile \/ TakeSource \/ AllocateHandle \/ TakeElements \/ SwiftCompile
  PROVE  Faithful'
<1>1. /\ client' = client /\ client \in {"ES", "JNI", "SWIFT"} /\ mode' = mode
      /\ pc \in {"start", "handle", "compile"} /\ pc' \in {"handle", "compile", "compiled", "finally", "done"}
      /\ UNCHANGED wireVars
  BY DEF BridgeCompile, TakeSource, AllocateHandle, TakeElements, SwiftCompile
<1>2. Answering'
  <2>1. CASE BridgeCompile
    <3>1. BridgeMode(NativeMode(mode)) = mode  BY ModeCrosses DEF Faithful, Answering
    <3>2. given' = mode /\ pc' = "compiled" /\ UNCHANGED starved  BY <2>1, <3>1 DEF BridgeCompile, EngineCompile
    <3>3. (tree = << >> /\ error = << >>)  BY <1>1 DEF IInv, Asked, NoAnswer
    <3>4. /\ tree' = << >> \/ \E t \in Trees : tree' = <<t>>
          /\ error' = << >> \/ \E e \in Errors : error' = <<e>>
          /\ HasAnswer' /\ heap' \subseteq heap \cup {"TREE"}
      BY <2>1, <3>3 DEF BridgeCompile, EngineCompile, HasAnswer
    <3> QED  BY <1>1, <3>2, <3>4 DEF Answering, Faithful
  <2>2. CASE SwiftCompile
    <3>1. given' = mode /\ pc' = "compiled" /\ UNCHANGED starved  BY <2>2 DEF SwiftCompile, EngineCompile
    <3>2. (tree = << >> /\ error = << >>)  BY <1>1 DEF IInv, Asked, NoAnswer
    <3>3. /\ tree' = << >> \/ \E t \in Trees : tree' = <<t>>
          /\ error' = << >> \/ \E e \in Errors : error' = <<e>>
          /\ HasAnswer' /\ heap' \subseteq heap \cup {"TREE"}
      BY <2>2, <3>2 DEF SwiftCompile, EngineCompile, HasAnswer
    <3> QED  BY <1>1, <3>1, <3>3 DEF Answering, Faithful
  <2>3. CASE TakeSource \/ AllocateHandle \/ TakeElements
    <3>1. /\ UNCHANGED <<given, tree, error>> /\ (starved' = starved \/ starved' = TRUE)
          /\ heap' \subseteq heap \cup {"SOURCE", "HANDLE", "ELEMENTS"}
          /\ pc' \in {"handle", "compile"} \/ (pc' \in {"finally", "done"} /\ starved' = TRUE /\ result' = Failed)
      BY <2>3 DEF TakeSource, AllocateHandle, TakeElements
    <3> QED  BY <1>1, <3>1 DEF Answering, Faithful, Ended
  <2> QED  BY <2>1, <2>2, <2>3
<1>3. Carrying'  BY <1>1 DEF Carrying
<1>4. Measuring'  BY <1>1, MeasuringStays DEF Faithful, Early
<1>5. Counting'  BY CountingStays DEF Faithful
<1> QED  BY <1>2, <1>3, <1>4, <1>5 DEF Faithful

(* What is only moved on.                                                  *)
LEMMA ReturnFaithful ==
  ASSUME Faithful, IInv, UNCHANGED commandVars,
         DropHandle \/ Finally \/ ReleaseElements \/ CopyPayload \/ SwiftCopy
  PROVE  Faithful'
<1>1. /\ UNCHANGED <<client, mode, given, tree, error, wireVars>> /\ heap' \subseteq heap
      /\ client \in {"ES", "JNI", "SWIFT"}
      /\ pc' \in {"finally", "done", "copy", "copied"}
  BY DEF DropHandle, Finally, ReleaseElements, CopyPayload, SwiftCopy
<1>2. UNCHANGED <<tree, error, wire, position, capacity>>  BY <1>1 DEF wireVars
<1>3. Answered' = Answered /\ (HasAnswer' <=> HasAnswer)  BY <1>2 DEF Answered, HasAnswer
<1>4. /\ pc \in {"compiled", "write", "written", "decode", "copy", "copied"} => given = mode /\ HasAnswer
      /\ pc = "refused" => starved
      /\ pc \in {"finally", "done"} => Ended
  BY <1>1 DEF Faithful, Answering
<1>5. (starved' = starved \/ starved' = TRUE) /\ starved \in BOOLEAN
  BY DEF DropHandle, Finally, ReleaseElements, CopyPayload, SwiftCopy, Faithful, Answering
<1>6. /\ pc' \in {"copy", "copied"} => given = mode /\ HasAnswer /\ client = "JNI"
      /\ pc' \in {"finally", "done"} => Ended'
  <2>1. CASE DropHandle   BY <1>4, <2>1 DEF DropHandle, Ended
  <2>2. CASE Finally      BY <1>1, <1>3, <1>4, <2>2 DEF Finally, Ended
  <2>3. CASE ReleaseElements  BY <1>4, <2>3 DEF ReleaseElements, Ended
  <2>4. CASE CopyPayload  BY <1>4, <2>4 DEF CopyPayload, Ended
  <2>5. CASE SwiftCopy
    <3>1. result' = Answered /\ pc' = "done" /\ given = mode /\ HasAnswer
      BY <1>4, <2>5 DEF SwiftCopy, Answered
    <3> QED  BY <1>1, <1>3, <3>1 DEF Ended
  <2> QED  BY <2>1, <2>2, <2>3, <2>4, <2>5
<1>7. Answering'
  <2>1. /\ tree' = << >> \/ \E t \in Trees : tree' = <<t>>
        /\ error' = << >> \/ \E e \in Errors : error' = <<e>>
        /\ mode' \in Members(Modes) /\ given' \in Members(Modes) \cup {""}
        /\ heap' \subseteq {"SOURCE", "HANDLE", "TREE", "DATA", "ELEMENTS", "STREAM", "BUFFER", "DUMP"}
    BY <1>1 DEF Faithful, Answering
  <2>2. starved' \in BOOLEAN  BY <1>5
  <2>3. /\ pc' \in {"compiled", "write", "written", "decode", "copy", "copied"} => given' = mode' /\ HasAnswer'
        /\ pc' # "refused" /\ (pc' \in {"finally", "done"} => Ended') /\ client' # "CLI"
    BY <1>1, <1>3, <1>6
  <2> QED  BY <2>1, <2>2, <2>3, Zenon DEF Answering
<1>8. Carrying'
  <2>1. /\ \A T : PayloadWhole(T)' <=> PayloadWhole(T)
        /\ ErrorWhole' <=> ErrorWhole
    BY <1>2, WholeStays
  <2>2. pc' \in {"copy", "copied"} => pc \in {"written", "copy"} /\ client = "JNI"
    BY DEF DropHandle, Finally, ReleaseElements, CopyPayload, SwiftCopy
  <2>3. pc' \in {"copy", "copied"} => ErrorWhole \/ \E T : PayloadWhole(T)
    BY <2>2 DEF Faithful, Carrying
  <2>4. pc' \in {"copy", "copied"} => ErrorWhole' \/ \E T : PayloadWhole(T)'
    BY <2>1, <2>3
  <2> QED  BY <1>1, <2>4 DEF Carrying
<1>9. Measuring'  BY <1>1, MeasuringStays DEF Faithful, Early
<1>10. Counting'  BY CountingStays DEF Faithful
<1> QED  BY <1>7, <1>8, <1>9, <1>10 DEF Faithful

-----------------------------------------------------------------------------
(* The bridge.                                                             *)
LEMMA BytesExact ==
  ASSUME NEW count \in Nat \ {0}, ~TooMany(count), SizeMax \in Nat
  PROVE  Bytes(count) = HeaderBytes + count * NodeBytes /\ Bytes(count) \in HeaderBytes .. SizeMax
<1> DEFINE q == (SizeMax - 8) \div 92
           b == 8 + count * 92
<1>1. count <= q /\ q \in Int  BY DEF TooMany, HeaderBytes, NodeBytes
<1>2. q * 92 <= SizeMax - 8  OBVIOUS
<1> HIDE DEF q
<1>3. b \in 8 .. SizeMax /\ b < SizeMax + 1  BY <1>1, <1>2
<1>4. \A x \in Nat, m \in Nat : x < m => x % m = x  OBVIOUS
<1>5. b % (SizeMax + 1) = b
  <2> HIDE DEF b
  <2> QED  BY <1>3, <1>4
<1> QED  BY <1>3, <1>5 DEF Bytes, HeaderBytes, NodeBytes

(* What a step of the bridge does not touch.                               *)
LEMMA BridgeAnswers ==
  ASSUME Faithful, client \in {"ES", "JNI"}, UNCHANGED <<client, mode, given, tree, error, result>>,
         heap' \subseteq heap \cup {"DATA"},
         \/ pc' \in {"write", "written"} /\ UNCHANGED starved
         \/ pc' = "refused" /\ starved' = TRUE,
         pc \in {"compiled", "write"}
  PROVE  Answering'
<1>1. /\ tree' = << >> \/ \E t \in Trees : tree' = <<t>>
      /\ error' = << >> \/ \E e \in Errors : error' = <<e>>
      /\ mode' \in Members(Modes) /\ given' \in Members(Modes) \cup {""}
      /\ heap' \subseteq {"SOURCE", "HANDLE", "TREE", "DATA", "ELEMENTS", "STREAM", "BUFFER", "DUMP"}
  BY DEF Faithful, Answering
<1>2. starved' \in BOOLEAN  BY DEF Faithful, Answering
<1>3. given' = mode' /\ HasAnswer'  BY DEF Faithful, Answering, HasAnswer
<1>4. (pc' = "refused" => starved') /\ pc' \notin {"finally", "done"} /\ client' # "CLI"  OBVIOUS
<1> QED  BY <1>1, <1>2, <1>3, <1>4, Zenon DEF Answering

LEMMA HeaderFaithful ==
  ASSUME Faithful, IInv, UNCHANGED commandVars, client \in {"ES", "JNI"}, WriteHeader
  PROVE  Faithful'
<1>1. UNCHANGED <<client, mode, given, tree, error, result>> /\ pc = "compiled" /\ tree # << >>
  BY DEF WriteHeader
<1> DEFINE t == tree[1]
           n == Count(t)
<1>2. Rooted(t)  BY <1>1, TreeRooted DEF Faithful
<1>3. n \in Nat \ {0}  BY <1>2, SizesTyped
<1>4. Counting'  BY CountingStays DEF Faithful
<1>5. CASE Refused
  <2>1. Answering'  BY <1>1, <1>5, BridgeAnswers DEF Refused
  <2>2. Carrying'   BY <1>5 DEF Refused, Carrying
  <2>3. Measuring'  BY <1>5, MeasuringStays DEF Refused, Faithful, Early
  <2> QED  BY <1>4, <2>1, <2>2, <2>3 DEF Faithful
<1>6. CASE ~Refused
  <2> HIDE DEF n, t
  <2>1. /\ ~TooMany(n) /\ heap' = heap \cup {"DATA"} /\ capacity' = Bytes(n)
        /\ wire' = [p \in {0, 4} |-> IF p = 0 THEN Field(4, <<"status", 0>>) ELSE Field(4, <<"count", n>>)]
        /\ position' = HeaderBytes /\ todo' = <<1>> /\ pc' = "write" /\ UNCHANGED <<starved, reader>>
    BY <1>6 DEF WriteHeader, n, t
  <2>2. Answering'  BY <1>1, <2>1, BridgeAnswers
  <2>3. SizeMax \in Nat  BY WireAssumption
  <2>4. capacity' = HeaderBytes + n * NodeBytes /\ capacity' \in HeaderBytes .. SizeMax
    BY <1>3, <2>1, <2>3, BytesExact
  <2>5. Measuring'
    <3>1. reader.position = 0  BY <1>1 DEF Faithful, Measuring, Early
    <3>2. 0 \in 0 .. HeaderBytes /\ HeaderBytes \in 0 .. capacity' /\ capacity' \in 0 .. SizeMax
      BY <2>3, <2>4 DEF HeaderBytes
    <3> QED  BY <2>1, <3>1, <3>2 DEF Faithful, Measuring
  <2>6. Header(wire', t) /\ DOMAIN wire' = {0, 4}
    BY <2>1 DEF Header, n
  <2>7. \E T : Payload(wire', HeaderBytes, capacity', t, T, 0) /\ T[0] = <<1>>
    BY <1>2, <2>4, <2>6, PayloadBegins DEF n
  <2>8. Writing'
    <3>1. tree' # << >> /\ tree'[1] = t  BY <1>1 DEF t
    <3>2. \E T : Payload(wire', position', capacity', tree'[1], T, 0) /\ T[0] = todo'
      BY <2>1, <2>7, <3>1
    <3>3. 0 \in Nat  OBVIOUS
    <3> QED  BY <3>1, <3>2, <3>3, Zenon DEF Writing
  <2>9. Carrying'  BY <2>1, <2>8 DEF Carrying
  <2> QED  BY <1>4, <2>2, <2>5, <2>9 DEF Faithful
<1> QED  BY <1>5, <1>6

LEMMA NodeFaithful ==
  ASSUME Faithful, IInv, UNCHANGED commandVars, client \in {"ES", "JNI"}, WriteNode
  PROVE  Faithful'
<1>1. /\ UNCHANGED engineVars /\ UNCHANGED <<capacity, reader>> /\ pc = "write" /\ todo # << >>
      /\ wire' = Behind(wire, Laid(position, View(tree[1], Head(todo))))
      /\ position' = position + BytesWritten
      /\ todo' = tree[1].kids[Head(todo)] \o Tail(todo)
  BY DEF WriteNode
<1>2. UNCHANGED <<client, mode, given, tree, error, result, starved, heap, pc>>  BY <1>1 DEF engineVars
<1> DEFINE t == tree[1]
<1>3. Writing  BY <1>1 DEF Faithful, Carrying
<1>d4. PICK d \in Nat : \E T : Payload(wire, position, capacity, t, T, d) /\ T[d] = todo
  BY <1>3 DEF Writing
<1>4. PICK T : Payload(wire, position, capacity, t, T, d) /\ T[d] = todo  BY <1>d4
<1>5. tree # << >> /\ Rooted(t)  BY <1>3, TreeRooted DEF Faithful, Writing
<1> HIDE DEF t
<1>6. PICK U : /\ Payload(wire', position', capacity, t, U, d + 1)
               /\ U[d + 1] = todo'
  <2>1. T[d] # << >>  BY <1>1, <1>4
  <2>2. d \in Nat  OBVIOUS
  <2>3. Grows(wire, position, capacity, t, T, d)  BY ONLY <1>4, <1>5, <2>1, <2>2, PayloadGrows
  <2> QED  BY <1>1, <1>4, <2>3 DEF t, Grows
<1>7. d + 1 \in Nat  OBVIOUS
<1>8. position' \in Nat /\ position' <= capacity  BY <1>5, <1>6, <1>7, PayloadFits
<1>9. Answering'  BY <1>1, <1>2, BridgeAnswers
<1>10. Carrying'
  <2>1. tree' # << >> /\ tree'[1] = t  BY <1>2, <1>5 DEF t
  <2>2. Payload(wire', position', capacity', tree'[1], U, d + 1) /\ U[d + 1] = todo'
    BY <1>1, <1>6, <2>1
  <2>3. Writing'  BY <1>7, <2>1, <2>2, Zenon DEF Writing
  <2> QED  BY <1>1, <1>2, <2>3 DEF Carrying
<1>11. Measuring'
  <2>1. BytesWritten = 92  BY PlacesApart DEF NodeBytes
  <2>2. position' \in 0 .. capacity /\ reader.position \in 0 .. position'
    BY <1>1, <1>8, <2>1 DEF Faithful, Measuring
  <2>3. pc' \notin Early  BY <1>1, <1>2 DEF Early
  <2> QED  BY <1>1, <2>2, <2>3 DEF Faithful, Measuring
<1>12. Counting'  BY CountingStays DEF Faithful
<1> QED  BY <1>9, <1>10, <1>11, <1>12 DEF Faithful

LEMMA EndFaithful ==
  ASSUME Faithful, IInv, UNCHANGED commandVars, client \in {"ES", "JNI"}, WriteEnd
  PROVE  Faithful'
<1>1. /\ UNCHANGED <<client, mode, starved, given, tree, error, result, wireVars>> /\ pc = "write"
      /\ todo = << >> /\ (position = capacity => pc' = "written" /\ heap' = heap \ {"TREE"})
  BY DEF WriteEnd
<1> DEFINE t == tree[1]
<1>2. Writing  BY <1>1 DEF Faithful, Carrying
<1>d3. PICK d \in Nat : \E T : Payload(wire, position, capacity, t, T, d) /\ T[d] = todo
  BY <1>2 DEF Writing
<1>3. PICK T : Payload(wire, position, capacity, t, T, d) /\ T[d] = todo  BY <1>d3
<1>4. tree # << >> /\ Rooted(t)  BY <1>2, TreeRooted DEF Faithful, Writing
<1> HIDE DEF t
<1>5. position = capacity /\ d = Count(t)  BY <1>1, <1>3, <1>4, PayloadFits
<1>6. PayloadWhole(T)  BY <1>1, <1>3, <1>4, <1>5 DEF PayloadWhole, t
<1>7. pc' = "written" /\ heap' = heap \ {"TREE"}  BY <1>1, <1>5
<1>8. Answering'  BY <1>1, <1>7, BridgeAnswers
<1>9. Carrying'
  <2>1. PayloadWhole(T)'  BY <1>1, <1>6, WholeStays DEF wireVars
  <2> QED  BY <1>1, <1>7, <2>1 DEF Carrying
<1>10. Measuring'  BY <1>1, <1>7, MeasuringStays DEF Faithful, Early
<1>11. Counting'  BY CountingStays DEF Faithful
<1> QED  BY <1>8, <1>9, <1>10, <1>11 DEF Faithful

LEMMA ErrorFaithful ==
  ASSUME Faithful, IInv, UNCHANGED commandVars, client \in {"ES", "JNI"}, WriteError
  PROVE  Faithful'
<1>1. UNCHANGED <<client, mode, given, tree, error, result>> /\ pc = "compiled" /\ error # << >>
  BY DEF WriteError
<1>2. error[1].message \in Nat /\ ErrorBytes + error[1].message <= SizeMax /\ SizeMax \in Nat
  BY <1>1, ErrorTyped DEF Faithful
<1>3. Counting'  BY CountingStays DEF Faithful
<1>4. CASE Refused
  <2>1. Answering'  BY <1>1, <1>4, BridgeAnswers DEF Refused
  <2>2. Carrying'   BY <1>4 DEF Refused, Carrying
  <2>3. Measuring'  BY <1>4, MeasuringStays DEF Refused, Faithful, Early
  <2> QED  BY <1>3, <2>1, <2>2, <2>3 DEF Faithful
<1>5. CASE ~Refused
  <2>1. /\ heap' = heap \cup {"DATA"} /\ pc' = "written" /\ wire' = LaidError(error[1])
        /\ position' = ErrorBytes + error[1].message /\ capacity' = position' /\ UNCHANGED <<starved, reader>>
    BY <1>5 DEF WriteError
  <2>2. Answering'  BY <1>1, <2>1, BridgeAnswers
  <2>3. ErrorWhole'  BY <1>1, <2>1 DEF ErrorWhole
  <2>4. Carrying'  BY <2>1, <2>3 DEF Carrying
  <2>5. Measuring'
    <3>1. reader.position = 0  BY <1>1 DEF Faithful, Measuring, Early
    <3>2. position' \in 0 .. SizeMax /\ position' \in 0 .. position' /\ 0 \in 0 .. position'
      BY <1>2, <2>1 DEF ErrorBytes
    <3> QED  BY <2>1, <3>1, <3>2 DEF Faithful, Measuring, Early
  <2> QED  BY <1>3, <2>2, <2>4, <2>5 DEF Faithful
<1> QED  BY <1>4, <1>5

-----------------------------------------------------------------------------
(* The decoder.                                                            *)
LEMMA DecodeAnswers ==
  ASSUME Faithful, IInv, UNCHANGED <<client, mode, heap, starved, given, tree, error>>,
         client \in {"ES", "JNI"}, pc \in {"written", "copied", "decode"},
         pc' = "decode" \/ (pc' \in {"finally", "done"} /\ result' = Answered)
  PROVE  Answering'
<1>1. /\ tree' = << >> \/ \E t \in Trees : tree' = <<t>>
      /\ error' = << >> \/ \E e \in Errors : error' = <<e>>
      /\ mode' \in Members(Modes) /\ given' \in Members(Modes) \cup {""}
      /\ heap' \subseteq {"SOURCE", "HANDLE", "TREE", "DATA", "ELEMENTS", "STREAM", "BUFFER", "DUMP"}
  BY DEF Faithful, Answering
<1>2. starved' \in BOOLEAN  BY DEF Faithful, Answering
<1>3. given' = mode' /\ HasAnswer'  BY DEF Faithful, Answering, HasAnswer
<1>4. Answered' = Answered  BY DEF Answered
<1>5. pc' \in {"finally", "done"} => Ended'  BY <1>3, <1>4 DEF Ended
<1>6. pc' # "refused" /\ client' # "CLI"  OBVIOUS
<1> QED  BY <1>1, <1>2, <1>3, <1>5, <1>6, Zenon DEF Answering

LEMMA DecodeEnds ==
  ASSUME Faithful, IInv, UNCHANGED commandVars, UNCHANGED <<client, mode, heap, starved, given, tree, error, wireVars>>,
         client \in {"ES", "JNI"}, pc \in {"written", "copied", "decode"},
         pc' \in {"finally", "done"}, result' = Answered
  PROVE  Faithful'
<1>1. Answering'  BY DecodeAnswers
<1>2. Carrying'  BY DEF Carrying
<1>3. Measuring'  BY MeasuringStays DEF Faithful, Early
<1>4. Counting'  BY CountingStays DEF Faithful
<1> QED  BY <1>1, <1>2, <1>3, <1>4 DEF Faithful

(* The fields of an error, each as it was laid down.                       *)
LEMMA ErrorRead ==
  ASSUME NEW e, e.status \in Members(Statuses), e.message \in Nat, e.ranged \in BOOLEAN, wire = LaidError(e)
  PROVE  LET r == IF e.ranged THEN 1 ELSE 0 IN
         /\ At(0, 4) = <<"status", Code(Statuses, e.status)>> /\ At(4, 4) = <<"ranged", r>>
         /\ At(8, 8) = <<"begin", r>> /\ At(16, 8) = <<"end", r>>
         /\ At(24, 4) = <<"length", e.message>> /\ At(ErrorBytes, e.message) = <<"message", e.message>>
<1> DEFINE D == {0, 4, 8, 16, 24, ErrorBytes}
           r == IF e.ranged THEN 1 ELSE 0
<1>1. ErrorBytes = 28  BY DEF ErrorBytes
<1>2. DOMAIN wire = D  BY DEF LaidError
<1>3. wire[0] = Field(4, <<"status", Code(Statuses, e.status)>>)  BY <1>1 DEF LaidError
<1>4. wire[4] = Field(4, <<"ranged", r>>)  BY <1>1 DEF LaidError
<1>5. wire[8] = Field(8, <<"begin", r>>)  BY <1>1 DEF LaidError
<1>6. wire[16] = Field(8, <<"end", r>>)  BY <1>1 DEF LaidError
<1>7. wire[24] = Field(4, <<"length", e.message>>)  BY <1>1 DEF LaidError
<1>8. wire[ErrorBytes] = Field(e.message, <<"message", e.message>>)  BY <1>1 DEF LaidError
<1> HIDE DEF r
<1> QED  BY <1>2, <1>3, <1>4, <1>5, <1>6, <1>7, <1>8 DEF At, Field, r

LEMMA HeaderRead ==
  ASSUME NEW T, PayloadWhole(T)
  PROVE  At(0, 4) = <<"status", 0>> /\ At(4, 4) = <<"count", Count(tree[1])>>
<1>1. Header(wire, tree[1])  BY DEF PayloadWhole, Payload
<1> DEFINE c == Count(tree[1])
<1> HIDE DEF c
<1>2. /\ 0 \in DOMAIN wire /\ wire[0] = Field(4, <<"status", 0>>)
      /\ 4 \in DOMAIN wire /\ wire[4] = Field(4, <<"count", c>>)
  BY <1>1 DEF Header, c
<1>3. Field(4, <<"status", 0>>).width = 4 /\ Field(4, <<"status", 0>>).value = <<"status", 0>>
  BY DEF Field
<1>4. Field(4, <<"count", c>>).width = 4 /\ Field(4, <<"count", c>>).value = <<"count", c>>
  BY DEF Field
<1> QED  BY <1>2, <1>3, <1>4 DEF At, c

(* What is received is one or the other.                                   *)
LEMMA WhatIsReceived ==
  ASSUME Faithful, Received
  PROVE  /\ client \in {"ES", "JNI"} /\ pc \in {"written", "copied"}
         /\ ErrorWhole \/ \E T : PayloadWhole(T)
BY DEF Faithful, Received, Carrying

LEMMA StatusCodes ==
  ASSUME NEW s \in Members(Statuses)
  PROVE  Code(Statuses, s) \in 1 .. 4 /\ Statuses[Code(Statuses, s)] = s /\ DOMAIN Statuses = 1 .. 4
<1>1. DOMAIN Statuses = 1 .. 4  BY DEF Statuses
<1> QED  BY <1>1, Coded

LEMMA DecodeErrorFaithful ==
  ASSUME Faithful, IInv, UNCHANGED commandVars, DecodeError
  PROVE  Faithful'
<1>1. /\ Received /\ At(0, 4)[2] # 0
      /\ UNCHANGED <<client, mode, heap, starved, given, tree, error, wireVars>>
  BY DEF DecodeError
<1>2. /\ client \in {"ES", "JNI"} /\ pc \in {"written", "copied"}
      /\ ErrorWhole \/ \E T : PayloadWhole(T)
  BY <1>1, WhatIsReceived
<1>3. ASSUME NEW T, PayloadWhole(T) PROVE FALSE
  <2>1. At(0, 4) = <<"status", 0>>  BY <1>3, HeaderRead
  <2> QED  BY <1>1, <2>1
<1>4. ErrorWhole  BY <1>2, <1>3
<1> DEFINE e == error[1]
           r == IF e.ranged THEN 1 ELSE 0
           c == Code(Statuses, e.status)
<1>5. /\ error # << >> /\ wire = LaidError(e) /\ position = ErrorBytes + e.message
      /\ e.status \in Members(Statuses) /\ e.message \in Nat /\ e.ranged \in BOOLEAN
  BY <1>4, ErrorTyped DEF ErrorWhole, Faithful
<1> HIDE DEF e
<1>6. /\ At(0, 4) = <<"status", c>> /\ At(4, 4) = <<"ranged", r>>
      /\ At(8, 8) = <<"begin", r>> /\ At(16, 8) = <<"end", r>>
      /\ At(24, 4) = <<"length", e.message>> /\ At(ErrorBytes, e.message) = <<"message", e.message>>
  BY <1>5, ErrorRead
<1>7. c \in DOMAIN Statuses /\ Statuses[c] = e.status  BY <1>5, StatusCodes
<1> DEFINE given1 == [kind |-> "ERROR", status |-> Statuses[At(0, 4)[2]],
                      range |-> IF At(4, 4)[2] # 0 THEN <<At(8, 8), At(16, 8)>> ELSE << >>,
                      message |-> At(ErrorBytes, At(24, 4)[2])]
<1>8. Give(given1)
  <2>1. At(0, 4)[2] \in DOMAIN Statuses  BY <1>6, <1>7
  <2>2. At(24, 4)[2] = e.message  BY <1>6
  <2>3. At(24, 4)[2] \in Nat /\ ErrorBytes + At(24, 4)[2] = position  BY <1>5, <2>2
  <2> HIDE DEF given1
  <2> QED  BY <2>1, <2>3 DEF DecodeError, given1
<1>9. given1 = ErrorOf(e)
  <2>1. Statuses[At(0, 4)[2]] = e.status  BY <1>6, <1>7
  <2>2. At(ErrorBytes, At(24, 4)[2]) = <<"message", e.message>>
    <3>1. At(24, 4)[2] = e.message  BY <1>6
    <3> QED  BY <1>6, <3>1
  <2>3. (IF At(4, 4)[2] # 0 THEN <<At(8, 8), At(16, 8)>> ELSE << >>)
          = IF e.ranged THEN <<<<"begin", 1>>, <<"end", 1>>>> ELSE << >>
    <3>1. CASE e.ranged
      <4>1. r = 1  BY <3>1
      <4> HIDE DEF r
      <4>2. At(4, 4)[2] = 1  BY <1>6, <4>1
      <4> QED  BY <1>6, <3>1, <4>1, <4>2
    <3>2. CASE ~e.ranged
      <4>1. r = 0  BY <3>2
      <4> HIDE DEF r
      <4>2. At(4, 4)[2] = 0  BY <1>6, <4>1
      <4> QED  BY <3>2, <4>2
    <3> QED  BY <3>1, <3>2
  <2> QED  BY <2>1, <2>2, <2>3 DEF ErrorOf
<1>10. tree = << >>  BY <1>5 DEF IInv, Asked
<1>11. Answered = ErrorOf(e)  BY <1>10 DEF Answered, e
<1>12. result' = Answered /\ pc' \in {"finally", "done"}  BY <1>8, <1>9, <1>11 DEF Give
<1> QED  BY <1>1, <1>2, <1>12, DecodeEnds

-----------------------------------------------------------------------------
(* A whole payload: the nodes are where the order of the calls has them.   *)
LEMMA WholeParts ==
  ASSUME Faithful, NEW T, PayloadWhole(T), client \in {"ES", "JNI"}
  PROVE  LET t == tree[1]
             n == Count(t)
         IN  /\ Rooted(t) /\ n \in Nat \ {0} /\ T[0] = <<1>> /\ T[n] = << >>
             /\ position = HeaderBytes + n * NodeBytes
             /\ \A d \in 0 .. n - 1 :
                  /\ T[d] # << >> /\ T[d + 1] = t.kids[Head(T[d])] \o Tail(T[d])
                  /\ Head(T[d]) \in Nodes(t) => Fields(HeaderBytes + d * NodeBytes) = View(t, Head(T[d]))
<1> DEFINE t == tree[1]
           n == Count(t)
<1>1. Rooted(t)  BY TreeRooted DEF Faithful, PayloadWhole
<1>2. n \in Nat \ {0}  BY <1>1, SizesTyped
<1>3. Payload(wire, position, capacity, t, T, n) /\ T[n] = << >>  BY DEF PayloadWhole
<1> HIDE DEF t, n
<1>4. /\ Walk(t, T, n) /\ position = HeaderBytes + n * NodeBytes
      /\ \A d \in 0 .. n - 1 : Recorded(wire, t, d, Head(T[d]))
  BY <1>3 DEF Payload
<1>5. /\ T[0] = <<1>>
      /\ \A d \in 0 .. n - 1 : T[d] # << >> /\ T[d + 1] = t.kids[Head(T[d])] \o Tail(T[d])
  BY <1>4 DEF Walk
<1>6. ASSUME NEW d \in 0 .. n - 1, Head(T[d]) \in Nodes(t)
      PROVE  Fields(HeaderBytes + d * NodeBytes) = View(t, Head(T[d]))
  <2>1. d \in Nat  BY <1>2
  <2> QED  BY <1>1, <1>4, <1>6, <2>1, NodeRead
<1> QED  BY <1>1, <1>2, <1>3, <1>4, <1>5, <1>6 DEF t, n

(* A payload that goes on being read.                                      *)
LEMMA DecodeGoes ==
  ASSUME Faithful, IInv, UNCHANGED commandVars,
         UNCHANGED <<client, mode, heap, starved, given, tree, error, wire, position, capacity, todo>>,
         client \in {"ES", "JNI"}, pc \in {"written", "copied", "decode"}, pc' = "decode",
         NEW T, PayloadWhole(T), NEW d \in 1 .. Count(tree[1]), NEW stack,
         \E v, R : Stacked(tree[1], T[d], stack, v, R),
         reader' = [position |-> HeaderBytes + d * NodeBytes, decoded |-> d,
                    declared |-> Count(tree[1]), stack |-> stack]
  PROVE  Faithful'
<1>1. Answering'  BY DecodeAnswers
<1> DEFINE n == Count(tree[1])
<1>2. n \in Nat \ {0} /\ position = HeaderBytes + n * NodeBytes  BY WholeParts
<1>3. n' = n /\ tree' = tree  OBVIOUS
<1>4. PayloadWhole(T)'  BY WholeStays
<1>5. reader' = [reader' EXCEPT !.stack = stack] /\ reader'.position = HeaderBytes + d * NodeBytes
      /\ reader'.decoded = d /\ reader'.declared = n /\ reader'.stack = stack
      /\ reader' = [position |-> reader'.position, decoded |-> reader'.decoded,
                    declared |-> reader'.declared, stack |-> reader'.stack]
  OBVIOUS
<1> HIDE DEF n
<1>6. Carrying'
  <2>1. \E v, R : Stacked(tree[1]', T[d], reader'.stack, v, R)  BY <1>3, <1>5
  <2>2. d \in 1 .. Count(tree'[1])  BY <1>3
  <2>3. Decoding'  BY <1>3, <1>4, <1>5, <2>1, <2>2 DEF Decoding, n
  <2> QED  BY <2>3 DEF Carrying
<1>7. Measuring'
  <2>1. d \in 1 .. n  BY DEF n
  <2>2. HeaderBytes + d * NodeBytes \in 0 .. position /\ d \in Nat
    BY <1>2, <2>1 DEF HeaderBytes, NodeBytes
  <2> QED  BY <1>5, <2>2 DEF Faithful, Measuring, Early
<1>8. Counting'  BY CountingStays DEF Faithful
<1> QED  BY <1>1, <1>6, <1>7, <1>8 DEF Faithful

LEMMA DecodeRootFaithful ==
  ASSUME Faithful, IInv, UNCHANGED commandVars, DecodeRoot
  PROVE  Faithful'
<1>1. /\ Received /\ At(0, 4)[2] = 0
      /\ UNCHANGED <<client, mode, heap, starved, given, tree, error, wire, position, capacity, todo>>
  BY DEF DecodeRoot
<1>2. /\ client \in {"ES", "JNI"} /\ pc \in {"written", "copied"}
      /\ ErrorWhole \/ \E T : PayloadWhole(T)
  BY <1>1, WhatIsReceived
<1>3. ~ErrorWhole
  <2> SUFFICES ASSUME ErrorWhole PROVE FALSE  OBVIOUS
  <2> DEFINE e == error[1]
             c == Code(Statuses, e.status)
  <2>1. /\ wire = LaidError(e)
        /\ e.status \in Members(Statuses) /\ e.message \in Nat /\ e.ranged \in BOOLEAN
    BY ErrorTyped DEF ErrorWhole, Faithful
  <2> HIDE DEF e
  <2>2. At(0, 4) = <<"status", c>>  BY <2>1, ErrorRead
  <2>3. c \in 1 .. 4  BY <2>1, StatusCodes
  <2> QED  BY <1>1, <2>2, <2>3
<1>4. PICK T : PayloadWhole(T)  BY <1>2, <1>3
<1> DEFINE t == tree[1]
           n == Count(t)
<1>5. /\ Rooted(t) /\ n \in Nat \ {0} /\ T[0] = <<1>>
      /\ \A d \in 0 .. n - 1 :
           /\ T[d + 1] = t.kids[Head(T[d])] \o Tail(T[d])
           /\ Head(T[d]) \in Nodes(t) => Fields(HeaderBytes + d * NodeBytes) = View(t, Head(T[d]))
  BY <1>2, <1>4, WholeParts
<1>6. At(4, 4)[2] = n  BY <1>4, HeaderRead
<1> HIDE DEF t, n
<1>7. 1 \in Nodes(t) /\ t.kind[1] = "HBOX" /\ t.kids[1] \in Seq(Nodes(t))  BY <1>5 DEF Rooted
<1>8. 0 \in 0 .. n - 1 /\ 0 + 1 = 1 /\ Head(T[0]) = 1 /\ Tail(T[0]) = << >>
      /\ HeaderBytes + 0 * NodeBytes = HeaderBytes
      /\ HeaderBytes + NodeBytes = HeaderBytes + 1 * NodeBytes
  BY <1>5 DEF HeaderBytes, NodeBytes
<1>9. T[1] = t.kids[1] \o << >> /\ Fields(HeaderBytes) = View(t, 1)  BY <1>5, <1>7, <1>8
<1>10. Sound(View(t, 1)) /\ Kinds[View(t, 1)["kind"][2]] = "HBOX"  BY <1>5, <1>7, Viewed
<1> DEFINE stack == <<[fields |-> View(t, 1), children |-> << >>]>>
<1>11. /\ reader' = [position |-> HeaderBytes + 1 * NodeBytes, decoded |-> 1,
                     declared |-> n, stack |-> stack]
       /\ pc' = "decode"
  BY <1>6, <1>8, <1>9, <1>10 DEF DecodeRoot
<1>12. \E v, R : Stacked(t, T[1], stack, v, R)  BY <1>5, <1>9, StackBegins
<1>13. 1 \in 1 .. n  BY <1>5
<1> HIDE DEF stack
<1> QED  BY <1>1, <1>2, <1>4, <1>11, <1>12, <1>13, DecodeGoes DEF t, n

(* What a step of the decoder starts from.                                 *)
LEMMA DecodeStands ==
  ASSUME Faithful, pc = "decode", IInv
  PROVE  /\ client \in {"ES", "JNI"}
         /\ \E T : /\ PayloadWhole(T)
                   /\ \E d \in 1 .. Count(tree[1]) : \E v, R :
                        /\ Stacked(tree[1], T[d], reader.stack, v, R)
                        /\ reader = [position |-> HeaderBytes + d * NodeBytes, decoded |-> d,
                                     declared |-> Count(tree[1]), stack |-> reader.stack]
<1>1. client \in {"ES", "JNI"}  BY DEF IInv, Held, HeldES, HeldJNI, HeldSwift, HeldCLI, Asked
<1>2. Decoding  BY <1>1 DEF Faithful, Carrying
<1>3. PICK T : /\ PayloadWhole(T)
               /\ \E d \in 1 .. Count(tree[1]) : \E v, R :
                    /\ Stacked(tree[1], T[d], reader.stack, v, R)
                    /\ reader.position = HeaderBytes + d * NodeBytes
                    /\ reader.decoded = d /\ reader.declared = Count(tree[1])
  BY <1>2 DEF Decoding
<1>d4. PICK d \in 1 .. Count(tree[1]) : \E v, R :
         /\ Stacked(tree[1], T[d], reader.stack, v, R)
         /\ reader.position = HeaderBytes + d * NodeBytes
         /\ reader.decoded = d /\ reader.declared = Count(tree[1])
  BY <1>3
<1>4. PICK v, R :
         /\ Stacked(tree[1], T[d], reader.stack, v, R)
         /\ reader.position = HeaderBytes + d * NodeBytes
         /\ reader.decoded = d /\ reader.declared = Count(tree[1])
  BY <1>d4
<1>5. reader = [position |-> HeaderBytes + d * NodeBytes, decoded |-> d,
                declared |-> Count(tree[1]), stack |-> reader.stack]
  BY <1>4 DEF Faithful, Measuring
<1> QED  BY <1>1, <1>3, <1>4, <1>5

LEMMA ReaderReads ==
  ASSUME NEW p, NEW n \in Nat, NEW c, NEW s, NEW u,
         reader = [position |-> p + n * NodeBytes, decoded |-> n, declared |-> c, stack |-> s],
         p = HeaderBytes,
         reader' = [reader EXCEPT !.position = @ + NodeBytes, !.decoded = @ + 1, !.stack = u]
  PROVE  reader' = [position |-> HeaderBytes + (n + 1) * NodeBytes, decoded |-> n + 1,
                    declared |-> c, stack |-> u]
<1>1. (HeaderBytes + n * NodeBytes) + NodeBytes = HeaderBytes + (n + 1) * NodeBytes
  BY DEF HeaderBytes, NodeBytes
<1> QED  BY <1>1

LEMMA LeafCopied ==
  ASSUME NEW t, Rooted(t), NEW j \in Nodes(t), t.kids[j] = << >>
  PROVE  Copies(t)[j] = Finish(View(t, j), << >>)
<1>1. Copies(t)[j] = Finish(View(t, j), [k \in DOMAIN t.kids[j] |-> Copies(t)[t.kids[j][k]]])
  BY CopiesDefined
<1>2. [k \in DOMAIN t.kids[j] |-> Copies(t)[t.kids[j][k]]] = << >>  BY DEF Rooted
<1> QED  BY <1>1, <1>2

LEMMA DecodeChildFaithful ==
  ASSUME Faithful, IInv, UNCHANGED commandVars, DecodeChild
  PROVE  Faithful'
<1> DEFINE t == tree[1]
           n == Count(t)
           stack == reader.stack
           h == Len(stack)
           child == Fields(reader.position)
<1>1. /\ pc = "decode" /\ Len(stack[h].children) < stack[h].fields["children"][2]
      /\ UNCHANGED <<client, mode, heap, starved, given, tree, error, wire, position, capacity, todo>>
  BY DEF DecodeChild, Top
<1>2. PICK T : /\ PayloadWhole(T)
               /\ \E d \in 1 .. n : \E v, R :
                    /\ Stacked(t, T[d], stack, v, R)
                    /\ reader = [position |-> HeaderBytes + d * NodeBytes, decoded |-> d,
                                 declared |-> n, stack |-> stack]
  BY <1>1, DecodeStands
<1>3. client \in {"ES", "JNI"}  BY <1>1, DecodeStands
<1>d4. PICK d \in 1 .. n : \E v, R :
         /\ Stacked(t, T[d], stack, v, R)
         /\ reader = [position |-> HeaderBytes + d * NodeBytes, decoded |-> d,
                      declared |-> n, stack |-> stack]
  BY <1>2
<1>4. PICK v, R :
         /\ Stacked(t, T[d], stack, v, R)
         /\ reader = [position |-> HeaderBytes + d * NodeBytes, decoded |-> d,
                      declared |-> n, stack |-> stack]
  BY <1>d4
<1>5. /\ Rooted(t) /\ n \in Nat \ {0} /\ T[n] = << >>
      /\ \A q \in 0 .. n - 1 :
           /\ T[q] # << >> /\ T[q + 1] = t.kids[Head(T[q])] \o Tail(T[q])
           /\ Head(T[q]) \in Nodes(t) => Fields(HeaderBytes + q * NodeBytes) = View(t, Head(T[q]))
  BY <1>2, <1>3, WholeParts
<1> HIDE DEF t, n, stack, h
<1>6. /\ h \in Nat \ {0} /\ v[h] \in Nodes(t) /\ FrameOf(t, v[h], stack[h])
  BY <1>4, <1>5, StackTop DEF h
<1>7. Len(stack[h].children) < Len(t.kids[v[h]])
  <2>1. stack[h].fields["children"][2] = Len(t.kids[v[h]])
    BY <1>5, <1>6, Viewed DEF FrameOf
  <2> QED  BY <1>1, <2>1
<1> DEFINE ahead == T[d]
           j == Head(ahead)
           c == stack[h].children
<1> HIDE DEF c, ahead
<1>8. /\ ahead # << >> /\ j \in Nodes(t) /\ Tail(ahead) \in Seq(Nodes(t))
      /\ t.kids[j] = << >> =>
           \E w, Q : Stacked(t, Tail(ahead), [stack EXCEPT ![h].children = Append(@, Copies(t)[j])], w, Q)
      /\ \E w, Q : Stacked(t, t.kids[j] \o Tail(ahead),
                           Append(stack, [fields |-> View(t, j), children |-> << >>]), w, Q)
  <2>1. Stacked(t, ahead, stack, v, R) /\ c = stack[h].children /\ h = Len(stack)
        /\ Len(c) < Len(t.kids[v[h]])
    BY <1>4, <1>7 DEF h, c, ahead
  <2> QED  BY ONLY <1>5, <2>1, StackReads, ZenonT(30)
<1>9. d \in 0 .. n - 1 /\ d \in Nat /\ d + 1 \in 1 .. n
  <2>1. d # n  BY <1>5, <1>8 DEF ahead
  <2> QED  BY <1>5, <2>1
<1>10. T[d + 1] = t.kids[j] \o Tail(ahead) /\ child = View(t, j)
  <2>1. reader.position = HeaderBytes + d * NodeBytes  BY <1>4
  <2> QED  BY <1>5, <1>8, <1>9, <2>1 DEF ahead
<1>11. Sound(View(t, j)) /\ Kinds[View(t, j)["kind"][2]] = t.kind[j]  BY <1>5, <1>8, Viewed
<1> DEFINE next == IF t.kind[j] = "HBOX" THEN Append(stack, [fields |-> View(t, j), children |-> << >>])
                   ELSE Adopt(stack, Finish(View(t, j), << >>))
<1>12. /\ reader' = [reader EXCEPT !.position = @ + NodeBytes, !.decoded = @ + 1, !.stack = next]
       /\ pc' = "decode"
  <2>1. /\ reader' = [reader EXCEPT
               !.position = @ + NodeBytes, !.decoded = @ + 1,
               !.stack = IF Kinds[child["kind"][2]] = "HBOX"
                         THEN Append(@, [fields |-> child, children |-> << >>])
                         ELSE Adopt(@, Finish(child, << >>))]
        /\ pc' = pc
    <3>1. Sound(child)  BY <1>10, <1>11
    <3> HIDE DEF child
    <3> QED  BY <3>1 DEF DecodeChild, child
  <2> QED  BY <1>1, <1>10, <1>11, <2>1 DEF stack
<1>13. reader' = [position |-> HeaderBytes + (d + 1) * NodeBytes, decoded |-> d + 1,
                  declared |-> n, stack |-> next]
  <2> HIDE DEF next
  <2> QED  BY <1>4, <1>9, <1>12, ReaderReads
<1>14. \E w, Q : Stacked(t, T[d + 1], next, w, Q)
  <2>1. CASE t.kind[j] = "HBOX"  BY <1>8, <1>10, <2>1
  <2>2. CASE t.kind[j] # "HBOX"
    <3>1. t.kids[j] = << >>  BY <1>5, <1>8, <2>2 DEF Rooted
    <3>2. T[d + 1] = Tail(ahead)  BY <1>8, <1>10, <3>1, ConcatEmptySeq
    <3>3. Copies(t)[j] = Finish(View(t, j), << >>)  BY <1>5, <1>8, <3>1, LeafCopied
    <3>4. next = [stack EXCEPT ![h].children = Append(@, Copies(t)[j])]
      BY <2>2, <3>3 DEF Adopt, h
    <3> HIDE DEF next, j
    <3> QED  BY <1>8, <3>1, <3>2, <3>4
  <2> QED  BY <2>1, <2>2
<1> HIDE DEF next
<1> QED  BY <1>1, <1>2, <1>3, <1>9, <1>12, <1>13, <1>14, DecodeGoes DEF t, n

LEMMA DecodeUpFaithful ==
  ASSUME Faithful, IInv, UNCHANGED commandVars, DecodeUp
  PROVE  Faithful'
<1> DEFINE t == tree[1]
           n == Count(t)
           stack == reader.stack
           h == Len(stack)
           down == SubSeq(stack, 1, h - 1)
           node == Finish(stack[h].fields, stack[h].children)
<1>1. /\ pc = "decode" /\ Len(stack[h].children) >= stack[h].fields["children"][2]
      /\ UNCHANGED <<client, mode, heap, starved, given, tree, error, wire, position, capacity, todo>>
      /\ IF down # << >>
         THEN reader' = [reader EXCEPT !.stack = Adopt(down, node)] /\ UNCHANGED <<pc, result>>
         ELSE /\ Give(IF reader.decoded = reader.declared /\ reader.position = position
                      THEN [kind |-> "TREE", root |-> node] ELSE ProtocolError)
              /\ UNCHANGED reader
  BY DEF DecodeUp, Top
<1>2. PICK T : /\ PayloadWhole(T)
               /\ \E d \in 1 .. n : \E v, R :
                    /\ Stacked(t, T[d], stack, v, R)
                    /\ reader = [position |-> HeaderBytes + d * NodeBytes, decoded |-> d,
                                 declared |-> n, stack |-> stack]
  BY <1>1, DecodeStands
<1>3. client \in {"ES", "JNI"}  BY <1>1, DecodeStands
<1>d4. PICK d \in 1 .. n : \E v, R :
         /\ Stacked(t, T[d], stack, v, R)
         /\ reader = [position |-> HeaderBytes + d * NodeBytes, decoded |-> d,
                      declared |-> n, stack |-> stack]
  BY <1>2
<1>4. PICK v, R :
         /\ Stacked(t, T[d], stack, v, R)
         /\ reader = [position |-> HeaderBytes + d * NodeBytes, decoded |-> d,
                      declared |-> n, stack |-> stack]
  BY <1>d4
<1>5. /\ Rooted(t) /\ n \in Nat \ {0} /\ position = HeaderBytes + n * NodeBytes
      /\ \A q \in 0 .. n - 1 : T[q] # << >>
  BY <1>2, <1>3, WholeParts
<1> HIDE DEF t, n, stack, h, down, node
<1>6. /\ h \in Nat \ {0} /\ v[h] \in Nodes(t) /\ FrameOf(t, v[h], stack[h]) /\ stack[h] \in Frames(t)
  BY <1>4, <1>5, StackTop DEF h
<1>7. ~(Len(stack[h].children) < Len(t.kids[v[h]]))
  <2>1. stack[h].fields["children"][2] = Len(t.kids[v[h]])
    BY <1>5, <1>6, Viewed DEF FrameOf
  <2>2. Len(stack[h].children) \in Nat /\ Len(t.kids[v[h]]) \in Nat
    BY <1>5, <1>6 DEF Frames, Rooted
  <2> QED  BY <1>1, <2>1, <2>2
<1> DEFINE ahead == T[d]
<1> HIDE DEF ahead
<1>8. /\ down = << >> => ahead = << >> /\ node = Copied(t)
      /\ down # << >> =>
           Stands(t, ahead, Adopt(down, node))
  <2>1. Stacked(t, ahead, stack, v, R) /\ h = Len(stack)
        /\ node = Finish(stack[h].fields, stack[h].children) /\ down = SubSeq(stack, 1, h - 1)
    BY <1>4 DEF h, node, down, ahead
  <2>2. Rooted(t)  BY <1>5
  <2>3. Returns(t, ahead, node, down)  BY ONLY <1>7, <2>1, <2>2, StackReturns
  <2> QED  BY <2>3 DEF Returns
<1>9. CASE down # << >>
  <2> DEFINE next == Adopt(down, node)
  <2>1. reader' = [reader EXCEPT !.stack = next] /\ pc' = "decode"  BY <1>1, <1>9
  <2>2. \E w, Q : Stacked(t, T[d], next, w, Q)  BY <1>8, <1>9 DEF ahead, Stands
  <2> HIDE DEF next
  <2>3. reader' = [position |-> HeaderBytes + d * NodeBytes, decoded |-> d,
                   declared |-> n, stack |-> next]
    BY <1>4, <2>1
  <2> QED  BY <1>1, <1>2, <1>3, <2>1, <2>2, <2>3, DecodeGoes DEF t, n
<1>10. CASE down = << >>
  <2>1. ahead = << >> /\ node = Copied(t)  BY <1>8, <1>10
  <2>2. d = n
    <3>1. ~(d \in 0 .. n - 1)  BY <1>5, <2>1 DEF ahead
    <3> QED  BY <1>5, <3>1
  <2>3. reader.decoded = reader.declared /\ reader.position = position  BY <1>4, <1>5, <2>2
  <2>4. Give([kind |-> "TREE", root |-> node]) /\ UNCHANGED reader  BY <1>1, <1>10, <2>3
  <2>5. tree # << >>  BY <1>2 DEF PayloadWhole
  <2>6. Answered = [kind |-> "TREE", root |-> node]  BY <2>1, <2>5 DEF Answered, t
  <2>7. result' = Answered /\ pc' \in {"finally", "done"}  BY <2>4, <2>6 DEF Give
  <2>8. UNCHANGED wireVars  BY <1>1, <2>4 DEF wireVars
  <2> QED  BY <1>1, <1>3, <2>7, <2>8, DecodeEnds
<1> QED  BY <1>9, <1>10

-----------------------------------------------------------------------------
LEMMA FaithfulStep == IInv /\ Commanded /\ Faithful /\ [Next]_vars => Faithful'
<1> SUFFICES ASSUME IInv, Commanded, Faithful, [Next]_vars PROVE Faithful'  OBVIOUS
<1>1. CASE Binding /\ UNCHANGED commandVars
  <2>1. CASE BridgeCompile \/ TakeSource \/ AllocateHandle \/ TakeElements \/ SwiftCompile
    BY <1>1, <2>1, CallFaithful
  <2>2. CASE DropHandle \/ Finally \/ ReleaseElements \/ CopyPayload \/ SwiftCopy
    BY <1>1, <2>2, ReturnFaithful
  <2>3. CASE client \in {"ES", "JNI"} /\ Bridge
    BY <1>1, <2>3, HeaderFaithful, NodeFaithful, EndFaithful, ErrorFaithful DEF Bridge
  <2>4. CASE Decode
    BY <1>1, <2>4, DecodeErrorFaithful, DecodeRootFaithful, DecodeChildFaithful, DecodeUpFaithful DEF Decode
  <2> QED  BY <1>1, <2>1, <2>2, <2>3, <2>4 DEF Binding
<1>2. CASE Command /\ UNCHANGED wireVars
  BY <1>2, CommandFaithful
<1>3. CASE UNCHANGED vars
  <2>1. UNCHANGED <<client, mode, pc, heap, starved, given, tree, error, result, wire, position, capacity,
                    todo, reader>> /\ UNCHANGED <<wireVars, commandVars>>
    BY <1>3 DEF vars, engineVars, wireVars
  <2>2. Answering'  BY <2>1 DEF Faithful, Answering, HasAnswer, Ended, Answered
  <2>3. Carrying'  BY <2>1 DEF Faithful, Carrying, Writing, ErrorWhole, PayloadWhole, Decoding
  <2>4. Measuring'  BY <2>1, MeasuringStays DEF Faithful
  <2>5. Counting'  BY <2>1, CountingStays DEF Faithful
  <2> QED  BY <2>2, <2>3, <2>4, <2>5 DEF Faithful
<1> QED  BY <1>1, <1>2, <1>3 DEF Next, Done

LEMMA AlwaysFaithful == Spec => []Faithful
BY FaithfulBegins, FaithfulStep, ClientsInvariance, AlwaysCommanded, PTL DEF Spec

(* A call of a binding gives its caller what the engine gave, in the mode  *)
(* that was asked for, unless memory ran out: for every tree and error,    *)
(* txc1_count, txc1_node and the decoders of wire.ts and WireDecoder.kt    *)
(* agree on the number of the nodes, their order and their fields.         *)
THEOREM AnswersAreFaithful == Spec => []AnswerFaithful
<1> SUFFICES ASSUME IInv, Commanded, Faithful PROVE AnswerFaithful
  BY AlwaysFaithful, ClientsInvariance, AlwaysCommanded, PTL
<1>1. pc \in Places /\ client \in {"ES", "JNI", "SWIFT", "CLI"}
  BY DEF IInv, Held, HeldES, HeldJNI, HeldSwift, HeldCLI, Asked, Places
<1>2. Len(tree) + Len(error) <= 1
  <2>1. tree = << >> \/ error = << >>  BY DEF IInv, Asked
  <2>2. tree # << >> => Len(tree) = 1  BY TreeRooted DEF Faithful
  <2>3. error # << >> => Len(error) = 1  BY ErrorTyped DEF Faithful
  <2>4. /\ tree = << >> => Len(tree) = 0
        /\ error = << >> => Len(error) = 0
    OBVIOUS
  <2> DEFINE a == Len(tree)
             b == Len(error)
  <2> HIDE DEF a, b
  <2>5. (a = 0 /\ b \in {0, 1}) \/ (a \in {0, 1} /\ b = 0)  BY <2>1, <2>2, <2>3, <2>4 DEF a, b
  <2>6. a + b <= 1  BY <2>5
  <2> QED  BY <2>6 DEF a, b
<1>3. /\ mode \in Members(Modes) /\ starved \in BOOLEAN /\ given \in Members(Modes) \cup {""}
      /\ heap \subseteq {"SOURCE", "HANDLE", "TREE", "DATA", "ELEMENTS", "STREAM", "BUFFER", "DUMP"}
  BY DEF Faithful, Answering
<1>4. /\ capacity \in 0 .. SizeMax /\ position \in 0 .. capacity
      /\ reader.position \in 0 .. position /\ reader.decoded \in Nat
  BY DEF Faithful, Measuring
<1>5. /\ index \in Nat \ {0} /\ exit \in -1 .. 2 /\ broken \in BOOLEAN
      /\ left \in 0 .. MaxInput /\ used \in 0 .. room /\ room \in 0 .. RoomMax
  BY DEF Faithful, Counting
<1>6. TypeOK
  <2>1. position \in Nat  BY <1>4
  <2> QED  BY <1>1, <1>2, <1>3, <1>4, <1>5, <2>1, Zenon DEF TypeOK
<1>7. pc = "done" /\ client # "CLI" => Ended  BY DEF Faithful, Answering
<1>8. pc = "done" /\ client = "CLI" => result.kind \notin {"TREE", "ERROR"}
  BY DEF Faithful, Answering
<1>9. Answered.kind \in {"TREE", "ERROR"}  BY DEF Answered, ErrorOf
<1>10. Failed.kind = "FAILED"  BY DEF Failed
<1>11. AnswerCarried  BY <1>7, <1>8, <1>10 DEF AnswerCarried, Ended
<1>12. AnswerGiven  BY <1>7, <1>9, <1>10 DEF AnswerGiven, Ended
<1>13. ExactPayload
  <2>1. position <= capacity  BY <1>4, WireAssumption
  <2>2. ASSUME pc = "write", todo = << >> PROVE position = capacity
    <3>1. client \in {"ES", "JNI"}  BY <2>2 DEF IInv, Held, HeldES, HeldJNI, HeldSwift, HeldCLI, Asked
    <3>2. Writing  BY <2>2, <3>1 DEF Faithful, Carrying
    <3>3. Rooted(tree[1])  BY <3>2, TreeRooted DEF Faithful, Writing
    <3>4. PICK d \in Nat : \E T : Payload(wire, position, capacity, tree[1], T, d) /\ T[d] = todo
      BY <3>2 DEF Writing
    <3>5. PICK T : Payload(wire, position, capacity, tree[1], T, d) /\ T[d] = todo  BY <3>4
    <3> QED  BY <2>2, <3>3, <3>5, PayloadFits
  <2> QED  BY <2>1, <2>2 DEF ExactPayload
<1> QED  BY <1>6, <1>11, <1>12, <1>13 DEF AnswerFaithful
=============================================================================
