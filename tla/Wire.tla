-------------------------------- MODULE Wire --------------------------------
(***************************************************************************)
(* The TXC1 transport.  tex_core_txc1_compile (packages/tex-core/bridge)   *)
(* writes a tree, or an error, into one block; the adapters of the WASM    *)
(* binding (es-tex-core/src/bridge.c, document.ts) and of the JVM          *)
(* (tex_core_kotlin_jni.c) carry it over, and the decoders (wire.ts,       *)
(* WireDecoder.kt) read it back.  A step is an allocation with what hangs  *)
(* on it, the writing of a node, or an iteration of a decoder.             *)
(***************************************************************************)
EXTENDS Engine

CONSTANTS SizeMax     (* SIZE_MAX, and UINT32_MAX                          *)

HeaderBytes == 8
NodeBytes   == 92
ErrorBytes  == 28

(* An error holds its message in an array of a few hundred bytes.          *)
ASSUME WireAssumption ==
  SizeMax \in Nat /\ \A e \in Errors : ErrorBytes + e.message <= SizeMax

VARIABLES
  wire,      (* the payload: the fields by the offset of their first byte  *)
  position, capacity,  (* txc1_writer                                      *)
  todo,      (* the nodes txc1_node is still to be called for              *)
  reader     (* WireReader: position, nodes decoded and declared, frames   *)

wireVars == <<wire, position, capacity, todo, reader>>

Field(width, value) == [width |-> width, value |-> value]

(* What is written is written once, behind what is there.                  *)
Behind(w, laid) == [p \in DOMAIN w \cup DOMAIN laid |-> IF p \in DOMAIN w THEN w[p] ELSE laid[p]]

WireInit ==
  /\ wire = << >> /\ position = 0 /\ capacity = 0 /\ todo = << >>
  /\ reader = [position |-> 0, decoded |-> 0, declared |-> 0, stack |-> << >>]

-----------------------------------------------------------------------------
(* The fields of a node, in the order each side has them.                  *)
WrittenSwapped ==                       (* mutant: extents the wrong way      *)
  <<<<"kind", 4>>, <<"x", 8>>, <<"y", 8>>, <<"width", 8>>, <<"descent", 8>>, <<"ascent", 8>>,
    <<"italic", 8>>, <<"codepoint", 4>>, <<"style", 4>>, <<"family", 4>>, <<"size", 8>>,
    <<"begin", 8>>, <<"end", 8>>, <<"children", 4>>>>

Written ==
  <<<<"kind", 4>>, <<"x", 8>>, <<"y", 8>>, <<"width", 8>>, <<"ascent", 8>>, <<"descent", 8>>,
    <<"italic", 8>>, <<"codepoint", 4>>, <<"style", 4>>, <<"family", 4>>, <<"size", 8>>,
    <<"begin", 8>>, <<"end", 8>>, <<"children", 4>>>>

ReadByES ==
  <<<<"kind", 4>>, <<"x", 8>>, <<"y", 8>>, <<"width", 8>>, <<"ascent", 8>>, <<"descent", 8>>,
    <<"italic", 8>>, <<"codepoint", 4>>, <<"style", 4>>, <<"family", 4>>, <<"size", 8>>,
    <<"begin", 8>>, <<"end", 8>>, <<"children", 4>>>>

ReadByKotlin ==
  <<<<"kind", 4>>, <<"x", 8>>, <<"y", 8>>, <<"width", 8>>, <<"ascent", 8>>, <<"descent", 8>>,
    <<"italic", 8>>, <<"codepoint", 4>>, <<"style", 4>>, <<"family", 4>>, <<"size", 8>>,
    <<"begin", 8>>, <<"end", 8>>, <<"children", 4>>>>

(* Where each field of a layout starts, and where the layout ends.         *)
Offset(order) ==
  LET at[k \in 1 .. Len(order) + 1] == IF k = 1 THEN 0 ELSE at[k - 1] + order[k - 1][2] IN at

Place(order) ==
  LET at == Offset(order)
      index(f) == CHOOSE k \in DOMAIN order : order[k][1] = f
  IN  [f \in {order[k][1] : k \in DOMAIN order} |->
         [at |-> at[index(f)], width |-> order[index(f)][2]]]

PlacesWritten == Place(Written)
BytesWritten  == Offset(Written)[Len(Written) + 1]

Laid(from, view) ==
  LET named(p) == CHOOSE f \in DOMAIN PlacesWritten : from + PlacesWritten[f].at = p IN
    [p \in {from + PlacesWritten[f].at : f \in DOMAIN PlacesWritten} |->
       Field(PlacesWritten[named(p)].width, view[named(p)])]

-----------------------------------------------------------------------------
(* tex_core_txc1_compile.                                                  *)
Refused ==
  starved' = TRUE /\ pc' = "refused" /\ heap' = heap \ {"TREE"} /\ UNCHANGED wireVars

(* txc1_count *)
Count(t) ==
  LET below[i \in DOMAIN t.kids] ==
        LET sum[k \in 0 .. Len(t.kids[i])] == IF k = 0 THEN 1 ELSE sum[k - 1] + below[t.kids[i][k]]
        IN  sum[Len(t.kids[i])]
  IN  below[1]

TooMany(count) == count > (SizeMax - HeaderBytes) \div NodeBytes

Bytes(count) == (HeaderBytes + count * NodeBytes) % (SizeMax + 1)

WriteHeader ==
  /\ pc = "compiled" /\ tree # << >>
  /\ \/ Refused
     \/ LET count == Count(tree[1]) IN
        /\ ~TooMany(count)
        /\ heap' = heap \cup {"DATA"} /\ capacity' = Bytes(count)
        /\ wire' = [p \in {0, 4} |-> IF p = 0 THEN Field(4, <<"status", 0>>)
                                     ELSE Field(4, <<"count", count>>)]
        /\ position' = HeaderBytes /\ todo' = <<1>> /\ pc' = "write"
        /\ UNCHANGED <<starved, reader>>
  /\ UNCHANGED <<client, mode, given, tree, error, result>>

(* txc1_node: a node, and its children before what follows it.             *)
WriteNode ==
  /\ pc = "write" /\ todo # << >>
  /\ wire' = Behind(wire, Laid(position, View(tree[1], Head(todo))))
  /\ position' = position + BytesWritten
  /\ todo' = tree[1].kids[Head(todo)] \o Tail(todo)
  /\ UNCHANGED <<engineVars, capacity, reader>>

(* The tree is freed; a payload that does not match its size is given up.  *)
WriteEnd ==
  /\ pc = "write" /\ todo = << >>
  /\ IF position = capacity
     THEN pc' = "written" /\ heap' = heap \ {"TREE"}
     ELSE pc' = "refused" /\ heap' = heap \ {"TREE", "DATA"}
  /\ UNCHANGED <<client, mode, starved, given, tree, error, result, wireVars>>

LaidError(e) ==
  LET range(end) == <<end, IF e.ranged THEN 1 ELSE 0>> IN
  [p \in {0, 4, 8, 16, 24, ErrorBytes} |->
     CASE p = 0  -> Field(4, <<"status", Code(Statuses, e.status)>>)
       [] p = 4  -> Field(4, <<"ranged", IF e.ranged THEN 1 ELSE 0>>)
       [] p = 8  -> Field(8, range("begin"))
       [] p = 16 -> Field(8, range("end"))
       [] p = 24 -> Field(4, <<"length", e.message>>)
       [] p = ErrorBytes -> Field(e.message, <<"message", e.message>>)]

WriteError ==
  /\ pc = "compiled" /\ error # << >>
  /\ \/ Refused
     \/ LET bytes == ErrorBytes + error[1].message IN
        /\ heap' = heap \cup {"DATA"} /\ pc' = "written"
        /\ wire' = LaidError(error[1])
        /\ position' = bytes /\ capacity' = bytes
        /\ UNCHANGED <<starved, todo, reader>>
  /\ UNCHANGED <<client, mode, given, tree, error, result>>

Bridge == WriteHeader \/ WriteNode \/ WriteEnd \/ WriteError
=============================================================================
