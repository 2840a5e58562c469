------------------------------ MODULE Packager ------------------------------
(***************************************************************************)
(* yakerize.py, which packs the component files and the manifest for       *)
(* Rhino's package manager, and pypireize.py, which builds the wheel.      *)
(***************************************************************************)
EXTENDS WorkingTree

\* A directory that does not exist cannot be listed: the tool raises.
Yakerize ==
    /\ Idle
    /\ IF targetDir # "there"
       THEN End("failed")
       ELSE Begin("yakerize", "check", NoVersion, {})
    /\ UNCHANGED <<versionFiles, sources, products>>

\* Fault: what is in the build directory is left there.
CleanedNot(deletable) == {yak}

\* Everything in the build directory is deleted, or all but a file that is in use.
Cleaned(deletable) == IF deletable THEN {NoYak} ELSE {NoYak, yak}

\* The directory is cleaned along with the checks, before their errors end the tool:
\* no component file, a foreign one, no manifest, or no logo, license or readme.  That
\* a deletion failed is no error.
CheckAndClean ==
    /\ At("yakerize", "check")
    /\ \E deletable, foreign, extras \in BOOLEAN :
          /\ yak' \in Cleaned(deletable)
          /\ IF /\ \E c \in Components : ghuser[c].exists
                /\ ~foreign
                /\ manifest.exists
                /\ extras
             THEN Goto("copy")
             ELSE End("failed")
    /\ UNCHANGED <<versionFiles, sources, targetDir, ghuser>>

\* main cleans again, and gives up if it cannot; then manifest, logo, license, readme
\* and every .ghuser are copied.
CopyFiles ==
    /\ At("yakerize", "copy")
    /\ \E deletable \in BOOLEAN :
          /\ yak' \in Cleaned(deletable)
          /\ IF deletable THEN Goto("build") ELSE End("failed")
    /\ UNCHANGED <<versionFiles, sources, targetDir, ghuser>>

\* Yak.exe packs the copies.  The tool sees only whether a .yak file is there: not
\* when Yak.exe is missing or failed, but for one that was there before.
BuildYak ==
    /\ At("yakerize", "build")
    /\ yak' \in {yak, YakOf(manifest.version, ghuser)}
    /\ End(IF yak'.exists THEN "ok" ELSE "failed")
    /\ UNCHANGED <<versionFiles, sources, targetDir, ghuser>>

YakerizeKilled ==
    /\ tool = "yakerize"
    /\ End("failed")
    /\ yak' \in {yak, NoYak}
    /\ UNCHANGED <<versionFiles, sources, targetDir, ghuser>>

YakerizeStep == CheckAndClean \/ CopyFiles \/ BuildYak

-----------------------------------------------------------------------------
\* pypireize looks for setup.py and ignores how its two builds end; what they build
\* is read by no other tool.
Pypireize ==
    /\ Idle
    /\ End(IF setup.exists THEN "ok" ELSE "failed")
    /\ UNCHANGED <<versionFiles, sources, products>>
=============================================================================
