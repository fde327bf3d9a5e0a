------------------------------ MODULE MCImports ------------------------------
(***************************************************************************)
(* Imports with two registered libraries and two files.                    *)
(***************************************************************************)
EXTENDS Imports

MCBuiltIns == <<"s", "t">>
MCNoBuiltIns == <<>>

\* The files differ by their names only: the program meets "a" first.
MCInit ==
    /\ Init
    /\ \A i \in DOMAIN imports[Main] : imports[Main][i] = "b" =>
          "a" \in ToSet(SubSeq(imports[Main], 1, i - 1))

MCSpec == MCInit /\ [][Next]_vars /\ WF_vars(Load) /\ WF_vars(Parse)

=============================================================================
