----------------------------- MODULE Flagerizer -----------------------------
(***************************************************************************)
(* flagerize.py: stamps every code.py with the version of the Python       *)
(* package it needs, on its second line.                                   *)
(***************************************************************************)
EXTENDS WorkingTree

\* Unlike versionize it ends before it touches a file when a check fails.
Flagerize(fromManifest, given) ==
    LET asked == Asked(fromManifest, given)
    IN  /\ Idle
        /\ IF WellFormed(asked) /\ bundles # {}
           THEN Begin("flagerize", "stamp", asked, bundles)
           ELSE End("failed")
        /\ UNCHANGED <<versionFiles, sources, products>>

\* Fault: older stamps are not looked for.
StampedAgain(file) == [file EXCEPT !.head = @ \cup {version}]

\* A stamp in the first ten lines is found, and then every stamp is erased; one that
\* is only further down stays.
Stamped(file) ==
    [file EXCEPT !.head = {version},
                 !.deep = IF file.head = {} THEN @ ELSE {}]

\* The file is opened for writing, and emptied, before its first line is asked for:
\* an empty one raises, and so does one that held nothing but stamps.
EmptyFile == [text |-> 0, head |-> {}, deep |-> {}]

\* Fault: the walk comes back to the files it has written.
StampFileForever ==
    \E c \in todo :
        /\ At("flagerize", "stamp")
        /\ code' = [code EXCEPT ![c] = Stamped(@)]
        /\ UNCHANGED <<running, versionFiles, bundles, metadata, products>>

\* One file, in the order of os.walk.
StampFile ==
    \E c \in todo :
        /\ At("flagerize", "stamp")
        /\ IF code[c].text = 0
           THEN code' = [code EXCEPT ![c] = EmptyFile] /\ End("failed")
           ELSE /\ code' = [code EXCEPT ![c] = Stamped(@)]
                /\ IF todo = {c}
                   THEN End("ok")
                   ELSE todo' = todo \ {c} /\ UNCHANGED <<tool, step, version, outcome>>
        /\ UNCHANGED <<versionFiles, bundles, metadata, products>>

FlagerizeKilled ==
    /\ tool = "flagerize"
    /\ End("failed")
    /\ code' \in {code} \cup {[code EXCEPT ![c] = EmptyFile] : c \in todo}
    /\ UNCHANGED <<versionFiles, bundles, metadata, products>>
=============================================================================
