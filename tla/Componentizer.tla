--------------------------- MODULE Componentizer ---------------------------
(***************************************************************************)
(* ghcomponentizer.py: makes a .ghuser file of every bundle, a directory   *)
(* with icon.png, code.py and metadata.json.                               *)
(*                                                                         *)
(* Of a metadata.json the model keeps what the tool checks: the exposure,  *)
(* and the access, wire display and type hint of an input.  A value is     *)
(* given by what int() and the tool's tables make of it.                   *)
(***************************************************************************)
EXTENDS WorkingTree, Integers

CONSTANTS
    Names,        \* names in the tables: [access, wire, hint : names -> numbers]
    HintIds       \* the values of TYPES_MAP

\* A value that int() takes, as a number or as text; a name; and no value at all.
Number(n) == [kind |-> "number", number |-> n, name |-> ""]
Name(s) == [kind |-> "name", number |-> 0, name |-> s]
Missing == [kind |-> "missing", number |-> 0, name |-> ""]

Invalid == -1
InRange == 0 .. 2

\* parse_param_access and parse_wire_display: int(), or else the table; the default,
\* 0, comes from the caller when there is no value.
Parse(raw, table) ==
    CASE raw.kind = "missing" -> 0
      [] raw.kind = "number"  -> IF raw.number \in InRange THEN raw.number ELSE Invalid
      [] raw.kind = "name"    -> IF raw.name \in DOMAIN table THEN table[raw.name] ELSE Invalid

\* parse_param_type_hint: a name is replaced by its identifier; the default is ghdoc.
ParseHint(raw) ==
    CASE raw.kind = "missing" -> Names.hint["ghdoc"]
      [] raw.kind = "number"  -> IF raw.number \in HintIds THEN raw.number ELSE Invalid
      [] raw.kind = "name"    -> IF raw.name \in DOMAIN Names.hint THEN Names.hint[raw.name] ELSE Invalid

Exposures == {-1, 2, 4, 8, 16, 32, 64, 128}

Settings(data) ==
    <<Parse(data.access, Names.access), Parse(data.wire, Names.wire), ParseHint(data.hint)>>

\* The bundle has its three files, its exposure is one of Grasshopper's (2 when none
\* is given), and its input is understood.
Accepted(data) ==
    /\ data.complete
    /\ data.exposure.kind = "missing" \/ data.exposure.number \in Exposures
    /\ \A i \in DOMAIN Settings(data) : Settings(data)[i] # Invalid

\* The directory is made if its parent exists, before GH_IO is looked for.
Ghcomponentize(ghioFound) ==
    /\ Idle
    /\ targetDir' = IF targetDir = "missing" THEN "there" ELSE targetDir
    /\ IF targetDir = "noParent" \/ ~ghioFound
       THEN End("failed")
       ELSE IF bundles = {} THEN End("ok")
       ELSE Begin("ghcomponentize", "build", NoVersion, bundles)
    /\ UNCHANGED <<versionFiles, sources, ghuser, yak>>

Compiled(c) ==
    [exists   |-> TRUE,
     text     |-> code[c].text,
     stamps   |-> code[c].head \cup code[c].deep,
     settings |-> Settings(metadata[c])]

\* Fault: a component that was made before is not made again.
CreateGhuserComponentOnce ==
    \E c \in todo :
        /\ At("ghcomponentize", "build")
        /\ IF Accepted(metadata[c]) \/ ghuser[c].exists
           THEN /\ ghuser' = IF ghuser[c].exists THEN ghuser ELSE [ghuser EXCEPT ![c] = Compiled(c)]
                /\ IF todo = {c}
                   THEN End("ok")
                   ELSE todo' = todo \ {c} /\ UNCHANGED <<tool, step, version, outcome>>
           ELSE End("failed") /\ UNCHANGED ghuser
        /\ UNCHANGED <<versionFiles, sources, targetDir, yak>>

\* create_ghuser_component, in the order of os.listdir: everything is checked before
\* the file is written, and what raises ends the tool.
CreateGhuserComponent ==
    \E c \in todo :
        /\ At("ghcomponentize", "build")
        /\ IF Accepted(metadata[c])
           THEN /\ ghuser' = [ghuser EXCEPT ![c] = Compiled(c)]
                /\ IF todo = {c}
                   THEN End("ok")
                   ELSE todo' = todo \ {c} /\ UNCHANGED <<tool, step, version, outcome>>
           ELSE End("failed") /\ UNCHANGED ghuser
        /\ UNCHANGED <<versionFiles, sources, targetDir, yak>>

\* Killed, possibly while a file is being written.
GhcomponentizeKilled ==
    /\ tool = "ghcomponentize"
    /\ End("failed")
    /\ ghuser' \in {ghuser} \cup {[ghuser EXCEPT ![c] = Torn] : c \in {b \in todo : Accepted(metadata[b])}}
    /\ UNCHANGED <<versionFiles, sources, targetDir, yak>>
=============================================================================
