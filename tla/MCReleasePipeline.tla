------------------------- MODULE MCReleasePipeline -------------------------
(***************************************************************************)
(* The instance of ReleasePipeline that TLC checks: two components, the    *)
(* versions 0.8.0, 0.9.0 and 0.10.0 and the ill-formed 1.0, and metadata   *)
(* that is accepted, with a number out of range, and incomplete.           *)
(***************************************************************************)
EXTENDS ReleasePipeline

MCVersions == {<<0, 8, 0>>, <<0, 9, 0>>, <<0, 10, 0>>, <<1, 0>>}

MCNames ==
    [access |-> [item |-> 0, list |-> 1, tree |-> 2],
     wire   |-> [default |-> 0, faint |-> 1, hidden |-> 2],
     hint   |-> [ghdoc |-> 100, line |-> 101]]
MCHintIds == {100, 101}

Line == [complete |-> TRUE, exposure |-> Missing, access |-> Name("list"), wire |-> Missing, hint |-> Name("line")]
MCMetadata ==
    {Line,
     [Line EXCEPT !.exposure = Number(4), !.wire = Number(2), !.hint = Missing],
     [Line EXCEPT !.access = Number(3)],
     [Line EXCEPT !.complete = FALSE]}
=============================================================================
