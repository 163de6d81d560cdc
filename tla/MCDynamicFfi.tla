----------------------------- MODULE MCDynamicFfi -----------------------------
(***************************************************************************)
(* The instance: a libffi without ffi_call found first, one without the    *)
(* type of u8 found next; u8 of one byte, i32 of two, pointers of three.   *)
(***************************************************************************)
EXTENDS DynamicFfi

MCWidth == [t \in {"u8", "i32", "ptr"} |->
              CASE t = "u8" -> 1 [] t = "i32" -> 2 [] t = "ptr" -> 3]
MCSearchOrder == <<"broken", "partial">>
MCProvides == [l \in {"broken", "partial"} |->
                 IF l = "broken" THEN {"ffi_prep_cif", "ptr", "i32", "u8", "void"}
                 ELSE {"ffi_prep_cif", "ffi_call", "ptr", "i32", "void"}]
MCValues == {-2, 1}
MCDirectArgs == {<<"ptr">>, <<"bad">>, <<"ptr", "i32", "ptr">>}

\* The block shares no state with the calls and the loader, so it is explored
\* on its own.
BlockAlone ==
  mem # <<>> => calls = 0 /\ \A h \in Handles : ~builder[h].live
===============================================================================
