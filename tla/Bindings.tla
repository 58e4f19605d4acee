------------------------------ MODULE Bindings ------------------------------
(***************************************************************************)
(* The bindings that hand a tree to another language: the WASM one         *)
(* (es-tex-core: bridge.c, document.ts, wire.ts), the JVM one              *)
(* (kotlin-tex-core: tex_core_kotlin_jni.c, Document.kt, WireDecoder.kt)   *)
(* over the transport of Wire, and the Swift one (Document.swift), which   *)
(* copies the nodes through the views of the C API.                        *)
(***************************************************************************)
EXTENDS Wire

Failed        == [kind |-> "FAILED"]      (* the copy or the source could not be allocated *)
ProtocolError == [kind |-> "PROTOCOL"]    (* the decoder disagrees with the engine         *)

(* Fields each kind of node keeps in the value tree.                       *)
Frame == {"x", "y", "width", "ascent", "descent"}
Kept  == [HBOX  |-> Frame \cup {"begin", "end"},
          GLYPH |-> Frame \cup {"italic", "codepoint", "style", "family", "size", "begin", "end"},
          KERN  |-> {"x", "width", "begin", "end"},
          RULE  |-> Frame \cup {"begin", "end"}]

Finish(fields, children) ==
  LET kind == Kinds[fields["kind"][2]] IN
    [kind |-> kind, kept |-> [f \in Kept[kind] |-> fields[f]], children |-> children]

(* The mode crosses as a number: toNativeMode, and the switch of the bridge. *)
NativeMode(m)        == Code(Modes, m) - 1

BridgeMode(n) ==
  IF n = 1 THEN "MATH_INLINE" ELSE IF n = 2 THEN "MATH_DISPLAY" ELSE "DOCUMENT"

BridgeCompile ==
  /\ client \in {"ES", "JNI"} /\ pc = "compile"
  /\ EngineCompile(BridgeMode(NativeMode(mode))) /\ pc' = "compiled"
  /\ UNCHANGED <<client, mode, starved, result, wireVars>>

-----------------------------------------------------------------------------
(* The decoder.                                                            *)
PlacesRead == [ES |-> Place(ReadByES), JNI |-> Place(ReadByKotlin)]

At(p, width) ==                           (* what a read of width bytes at p gives *)
  IF p \in DOMAIN wire /\ wire[p].width = width THEN wire[p].value ELSE <<"garbage", -1>>

Fields(p) ==
  LET place == PlacesRead[client] IN
    [f \in DOMAIN place |-> At(p + place[f].at, place[f].width)]

Sound(fields) ==
  /\ fields["kind"][2] \in DOMAIN Kinds
  /\ fields["style"][2] + 1 \in DOMAIN Styles /\ fields["family"][2] + 1 \in DOMAIN Families
  /\ Kinds[fields["kind"][2]] # "HBOX" => fields["children"][2] = 0

Give(r) == result' = r /\ pc' = IF client = "ES" THEN "finally" ELSE "done"

Received == (client = "ES" /\ pc = "written") \/ (client = "JNI" /\ pc = "copied")

DecodeError ==
  /\ Received /\ At(0, 4)[2] # 0
  /\ LET length == At(24, 4)[2] IN
     IF /\ At(0, 4)[2] \in DOMAIN Statuses
        /\ length \in Nat /\ ErrorBytes + length = position
     THEN Give([kind |-> "ERROR", status |-> Statuses[At(0, 4)[2]],
                range |-> IF At(4, 4)[2] # 0 THEN <<At(8, 8), At(16, 8)>> ELSE << >>,
                message |-> At(ErrorBytes, length)])
     ELSE Give(ProtocolError)
  /\ UNCHANGED <<client, mode, heap, starved, given, tree, error, wireVars>>

DecodeRoot ==
  /\ Received /\ At(0, 4)[2] = 0
  /\ LET root == Fields(HeaderBytes) IN
     IF Sound(root) /\ Kinds[root["kind"][2]] = "HBOX"
     THEN /\ reader' = [position |-> HeaderBytes + NodeBytes, decoded |-> 1,
                        declared |-> At(4, 4)[2],
                        stack |-> <<[fields |-> root, children |-> << >>]>>]
          /\ pc' = "decode" /\ UNCHANGED result
     ELSE Give(ProtocolError) /\ UNCHANGED reader
  /\ UNCHANGED <<client, mode, heap, starved, given, tree, error, wire, position, capacity, todo>>

Top(s)         == s[Len(s)]
Adopt(s, node) == [s EXCEPT ![Len(s)].children = Append(@, node)]

(* The top frame misses a child: it is read, and a box opens a frame.      *)
DecodeChild ==
  /\ pc = "decode" /\ Len(Top(reader.stack).children) < Top(reader.stack).fields["children"][2]
  /\ LET child == Fields(reader.position) IN
     IF Sound(child)
     THEN /\ reader' = [reader EXCEPT
               !.position = @ + NodeBytes, !.decoded = @ + 1,
               !.stack = IF Kinds[child["kind"][2]] = "HBOX"
                         THEN Append(@, [fields |-> child, children |-> << >>])
                         ELSE Adopt(@, Finish(child, << >>))]
          /\ UNCHANGED <<pc, result>>
     ELSE Give(ProtocolError) /\ UNCHANGED reader
  /\ UNCHANGED <<client, mode, heap, starved, given, tree, error, wire, position, capacity, todo>>

(* The top frame is complete: its node goes to the frame below, or is the  *)
(* root, and then the count and the end of the payload must agree.         *)
DecodeUp ==
  /\ pc = "decode" /\ Len(Top(reader.stack).children) >= Top(reader.stack).fields["children"][2]
  /\ LET top   == Top(reader.stack)
         below == SubSeq(reader.stack, 1, Len(reader.stack) - 1)
         node  == Finish(top.fields, top.children)
     IN  IF below # << >>
         THEN reader' = [reader EXCEPT !.stack = Adopt(below, node)] /\ UNCHANGED <<pc, result>>
         ELSE /\ Give(IF reader.decoded = reader.declared /\ reader.position = position
                      THEN [kind |-> "TREE", root |-> node] ELSE ProtocolError)
              /\ UNCHANGED reader
  /\ UNCHANGED <<client, mode, heap, starved, given, tree, error, wire, position, capacity, todo>>

Decode == DecodeError \/ DecodeRoot \/ DecodeChild \/ DecodeUp

-----------------------------------------------------------------------------
(* WASM.  An empty source has no block; a source that cannot be allocated  *)
(* is reported before the try whose finally frees the blocks.              *)
TakeSource ==
  /\ client = "ES" /\ pc = "start"
  /\ \/ heap' \in {heap, heap \cup {"SOURCE"}} /\ pc' = "handle" /\ UNCHANGED <<starved, result>>
     \/ starved' = TRUE /\ result' = Failed /\ pc' = "done" /\ UNCHANGED heap
  /\ UNCHANGED <<client, mode, given, tree, error, wireVars>>

AllocateHandle ==                         (* es_compile *)
  /\ client = "ES" /\ pc = "handle"
  /\ \/ heap' = heap \cup {"HANDLE"} /\ pc' = "compile" /\ UNCHANGED <<starved, result>>
     \/ starved' = TRUE /\ result' = Failed /\ pc' = "finally" /\ UNCHANGED heap
  /\ UNCHANGED <<client, mode, given, tree, error, wireVars>>

DropHandle ==                             (* the bridge refused *)
  /\ client = "ES" /\ pc = "refused"
  /\ heap' = heap \ {"HANDLE"} /\ result' = Failed /\ pc' = "finally"
  /\ UNCHANGED <<client, mode, starved, given, tree, error, wireVars>>

FinallyOnce ==                            (* mutant: the payload or the source *)
  /\ client = "ES" /\ pc = "finally"
  /\ heap' = heap \ IF "HANDLE" \in heap THEN {"HANDLE", "DATA"} ELSE {"SOURCE"}
  /\ pc' = "done"
  /\ UNCHANGED <<client, mode, starved, given, tree, error, result, wireVars>>

Finally ==
  /\ client = "ES" /\ pc = "finally"
  /\ heap' = heap \ IF "HANDLE" \in heap THEN {"HANDLE", "DATA", "SOURCE"} ELSE {"SOURCE"}
  /\ pc' = "done"
  /\ UNCHANGED <<client, mode, starved, given, tree, error, result, wireVars>>

-----------------------------------------------------------------------------
(* JVM.                                                                    *)
TakeElements ==
  /\ client = "JNI" /\ pc = "start"
  /\ \/ heap' \in {heap, heap \cup {"ELEMENTS"}} /\ pc' = "compile" /\ UNCHANGED <<starved, result>>
     \/ starved' = TRUE /\ result' = Failed /\ pc' = "done" /\ UNCHANGED heap
  /\ UNCHANGED <<client, mode, given, tree, error, wireVars>>

ReleaseElements ==
  /\ client = "JNI" /\ pc \in {"written", "refused"}
  /\ heap' = heap \ {"ELEMENTS"}
  /\ IF pc = "written" THEN pc' = "copy" /\ UNCHANGED result ELSE pc' = "done" /\ result' = Failed
  /\ UNCHANGED <<client, mode, starved, given, tree, error, wireVars>>

CopyPayload ==
  /\ client = "JNI" /\ pc = "copy"
  /\ heap' = heap \ {"DATA"}
  /\ \/ pc' = "copied" /\ UNCHANGED <<starved, result>>
     \/ pc' = "done" /\ starved' = TRUE /\ result' = Failed
  /\ UNCHANGED <<client, mode, given, tree, error, wireVars>>

-----------------------------------------------------------------------------
(* Swift.                                                                  *)
SwiftCompile ==
  /\ client = "SWIFT" /\ pc = "start"
  /\ EngineCompile(mode) /\ pc' = "compiled"
  /\ UNCHANGED <<client, mode, starved, result, wireVars>>

(* RenderNode(copying:), from the views, without a transport.              *)
Copied(t) ==
  LET copy[i \in DOMAIN t.kids] ==
        Finish(View(t, i), [k \in DOMAIN t.kids[i] |-> copy[t.kids[i][k]]])
  IN  copy[1]

ErrorOf(e) ==
  [kind |-> "ERROR", status |-> e.status, message |-> <<"message", e.message>>,
   range |-> IF e.ranged THEN <<<<"begin", 1>>, <<"end", 1>>>> ELSE << >>]

SwiftCopy ==
  /\ client = "SWIFT" /\ pc = "compiled"
  /\ result' = IF tree # << >> THEN [kind |-> "TREE", root |-> Copied(tree[1])] ELSE ErrorOf(error[1])
  /\ heap' = heap \ {"TREE"} /\ pc' = "done"
  /\ UNCHANGED <<client, mode, starved, given, tree, error, wireVars>>

Binding ==
  \/ BridgeCompile \/ (client \in {"ES", "JNI"} /\ Bridge) \/ Decode
  \/ TakeSource \/ AllocateHandle \/ DropHandle \/ Finally
  \/ TakeElements \/ ReleaseElements \/ CopyPayload
  \/ SwiftCompile \/ SwiftCopy
=============================================================================
