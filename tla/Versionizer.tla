---------------------------- MODULE Versionizer ----------------------------
(***************************************************************************)
(* versionize.py: writes a version into manifest.yml, setup.py,            *)
(* __init__.py and CMakeLists.txt, one file after the other.               *)
(***************************************************************************)
EXTENDS WorkingTree

\* The checks list their errors and go on; only a version that is missing raises.
Versionize(fromManifest, given) ==
    LET asked == Asked(fromManifest, given)
        first == IF fromManifest THEN "setup" ELSE "manifest"
    IN  /\ Idle
        /\ IF asked = NoVersion
           THEN End("failed")
           ELSE Begin("versionize", first, asked, {})
        /\ UNCHANGED <<versionFiles, sources, products>>

\* Fault: any version is accepted.
AcceptsAny(file) == file.exists /\ file.version # NoVersion

\* The file is there, holds a version, and that string is smaller than the new one.
Accepts(file) ==
    /\ file.exists
    /\ file.version # NoVersion
    /\ ~StringLeq(Text(version), Text(file.version))

\* One of the three files that are checked before they are rewritten.
Update(place, file, fileAfter, next) ==
    /\ At("versionize", place)
    /\ IF Accepts(file)
       THEN fileAfter = File(AsRead(version)) /\ Goto(next)
       ELSE fileAfter = file /\ End("failed")
    /\ UNCHANGED <<sources, products>>

UpdateManifest == Update("manifest", manifest, manifest', "setup") /\ UNCHANGED <<setup, init, cmake>>

\* Fault: setup.py is left out.
UpdateSetupNot ==
    /\ At("versionize", "setup")
    /\ Goto("init")
    /\ UNCHANGED <<versionFiles, sources, products>>

UpdateSetup == Update("setup", setup, setup', "init") /\ UNCHANGED <<manifest, init, cmake>>

UpdateInit == Update("init", init, init', "cmake") /\ UNCHANGED <<manifest, setup, cmake>>

\* The last file is not checked: a version in its project line is replaced.
UpdateCmake ==
    /\ At("versionize", "cmake")
    /\ End(IF cmake.exists THEN "ok" ELSE "failed")
    /\ cmake' = IF cmake.version = NoVersion THEN cmake ELSE File(AsRead(version))
    /\ UNCHANGED <<manifest, setup, init, sources, products>>

\* Killed: between open(..., "w") and the end of the write the file is empty.
Emptied(place, file, fileAfter) ==
    fileAfter \in {file} \cup (IF step = place /\ Accepts(file) THEN {File(NoVersion)} ELSE {})

VersionizeKilled ==
    /\ tool = "versionize"
    /\ End("failed")
    /\ Emptied("manifest", manifest, manifest')
    /\ Emptied("setup", setup, setup')
    /\ Emptied("init", init, init')
    /\ cmake' \in {cmake} \cup (IF step = "cmake" /\ cmake.exists THEN {File(NoVersion)} ELSE {})
    /\ UNCHANGED <<sources, products>>

VersionizeStep == UpdateManifest \/ UpdateSetup \/ UpdateInit \/ UpdateCmake
=============================================================================
