---------------------------- MODULE WorkingTree ----------------------------
(***************************************************************************)
(* What the release tools of src/invokes read and write, and the state of  *)
(* the one tool that runs: tasks.py starts them one at a time.             *)
(*                                                                         *)
(* A version is a tuple of numbers, <<1, 2, 3>> for 1.2.3.  The tools      *)
(* compare versions as strings: 1.10.0 is before 1.9.0.                    *)
(***************************************************************************)
EXTENDS Naturals, Sequences, SequencesExt, FiniteSets

CONSTANTS
    Components,   \* names of component bundles
    Versions,     \* versions somebody may ask for, ill-formed ones included
    Metadata      \* metadata.json files somebody may write (module Componentizer)

VARIABLES
    manifest, setup, init, cmake, \* files with a version literal
    bundles,           \* the components in src/gh_components
    code,              \* their code.py files
    metadata,          \* their metadata.json files
    targetDir,         \* ./build/gh: "there", "missing", or its parent is
    ghuser,            \* the component files in it
    yak,               \* the package in ./build/yak
    tool, step,        \* the running tool, "" when none does, and where it is
    version, todo,     \* its version argument and the bundles it still has to treat
    outcome            \* of the last tool: "ok" or "failed", "" while one runs

versionFiles == <<manifest, setup, init, cmake>>
sources == <<bundles, code, metadata>>
products == <<targetDir, ghuser, yak>>
running == <<tool, step, version, todo, outcome>>
vars == <<versionFiles, sources, products, running>>

-----------------------------------------------------------------------------
(* Versions.                                                               *)

NoVersion == <<>>

\* ^\d+\.\d+\.\d+$
WellFormed(v) == Len(v) = 3

\* What a search for \d+\.\d+\.\d+ finds where the string of v, of at most three parts,
\* was written.  (Of a longer one manifest.yml would give the first three, and keep the
\* rest when it is rewritten, and the other files nothing: nobody asks for one here.)
AsRead(v) == IF WellFormed(v) THEN v ELSE NoVersion

\* Where the string of a number below 100 is among those of all such numbers, in the
\* order of strings: 0, 1, 10, 11, .., 19, 2, 20, ..
Rank(n) == IF n < 10 THEN 11 * n ELSE 11 * (n \div 10) + (n % 10) + 1

\* A version as it is compared.  The point sorts before the digits, as the end of a
\* string does, so that strings are ordered by the first part in which they differ.
Text(v) == [i \in DOMAIN v |-> Rank(v[i])]

\* Python's <= on strings.
StringLeq(s, t) ==
    \/ IsPrefix(s, t)
    \/ \E i \in DOMAIN s \cap DOMAIN t :
          s[i] < t[i] /\ \A j \in 1 .. i - 1 : s[j] = t[j]

\* A file with a version literal (<<>>: the file exists and has none).
File(v) == [exists |-> TRUE, version |-> v]
NoFile == [exists |-> FALSE, version |-> NoVersion]
VersionFile == [exists : BOOLEAN, version : Versions \cup {NoVersion}]

-----------------------------------------------------------------------------
(* Components.                                                             *)

\* A code.py: its text (0: the file is empty), the versions of its stamps
\* "# r: package==version" in the first ten lines, and of those further down.
CodeFile == [text : Nat, head : SUBSET Versions, deep : SUBSET Versions]

\* A .ghuser: the text and the stamps of the code.py it was made from, and the
\* parameter settings.  A file whose writing was interrupted is Torn.
NoGhuser == [exists |-> FALSE, text |-> 0, stamps |-> {}, settings |-> <<>>]
Torn == [NoGhuser EXCEPT !.exists = TRUE]

\* A package: the version of its manifest and its components.
NoYak == [exists |-> FALSE, version |-> NoVersion, contents |-> [c \in Components |-> NoGhuser]]
YakOf(v, files) == [exists |-> TRUE, version |-> v, contents |-> files]

-----------------------------------------------------------------------------
(* Running a tool.                                                         *)

Idle == tool = ""

Begin(name, first, v, bundlesToTreat) ==
    /\ Idle
    /\ tool' = name
    /\ step' = first
    /\ version' = v
    /\ todo' = bundlesToTreat
    /\ outcome' = ""

At(name, place) == tool = name /\ step = place

Goto(place) ==
    /\ step' = place
    /\ UNCHANGED <<tool, version, todo, outcome>>

\* sys.exit, an exception nobody handles, or the end of the tool.
End(how) ==
    /\ tool' = ""
    /\ step' = ""
    /\ version' = NoVersion
    /\ todo' = {}
    /\ outcome' = how

\* The version a tool works with: the manifest's, or the one given.  Without one it
\* raises, for the manifest is opened and the version matched without a test.
Asked(fromManifest, given) == IF fromManifest THEN manifest.version ELSE given
=============================================================================
