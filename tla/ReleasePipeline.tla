-------------------------- MODULE ReleasePipeline --------------------------
(***************************************************************************)
(* The tasks of tasks.py and the developer who runs them, in any order, by *)
(* hand with other arguments, and interrupts them; between two runs files  *)
(* are edited.  release counts the tasks of a release that have succeeded, *)
(* in their order and with no edit that a later one depends on.            *)
(***************************************************************************)
EXTENDS Versionizer, Flagerizer, Componentizer, Packager

CONSTANT
    MaxInterventions  \* bound: edits, runs by hand and interrupted tools

ASSUME PipelineAssumption ==
    /\ Versions \subseteq Seq(0 .. 99) \ {NoVersion}
    /\ \A v \in Versions : Len(v) <= 3
    /\ MaxInterventions \in Nat

VARIABLES
    release,      \* 0, and then 1 versionize, 2 flagerize, 3 ghcomponentize, 4 yakerize
    startedBy,    \* "task" or "hand", for the tool that runs
    interventions \* so far

pipelineVars == <<vars, release, startedBy, interventions>>

Order == [versionize |-> 1, flagerize |-> 2, ghcomponentize |-> 3, yakerize |-> 4]

\* The manifest may have been given its new version, or there is none yet: this
\* repository has no manifest.yml, and the tasks that read it end at opening it.  The
\* other files are in the layout versionize was written for, or this repository's, where
\* setup.py reads its version from elsewhere and there is no __init__.py at that path.
Init ==
    /\ manifest = NoFile \/ \E v \in Versions : WellFormed(v) /\ manifest = File(v)
    /\ \/ \E v \in Versions : WellFormed(v) /\ setup = File(v) /\ init = File(v)
       \/ setup = File(NoVersion) /\ init = NoFile
    /\ cmake = File(NoVersion)
    /\ bundles = Components
    /\ code = [c \in Components |-> [text |-> 1, head |-> {}, deep |-> {}]]
    /\ \E data \in Metadata : Accepted(data) /\ metadata = [c \in Components |-> data]
    /\ targetDir = "missing"
    /\ ghuser = [c \in Components |-> NoGhuser]
    /\ yak = NoYak
    /\ tool = ""
    /\ step = ""
    /\ version = NoVersion
    /\ todo = {}
    /\ outcome = ""
    /\ release = 0
    /\ startedBy = "task"
    /\ interventions = 0

-----------------------------------------------------------------------------
(* The tools.                                                              *)

AtMost(n) == IF release < n THEN release ELSE n

Intervene ==
    /\ interventions < MaxInterventions
    /\ interventions' = interventions + 1

\* A tool that starts puts the release back to before its task.
Started(name, how) ==
    /\ startedBy' = how
    /\ release' = AtMost(Order[name] - 1)
    /\ IF how = "task" THEN UNCHANGED interventions ELSE Intervene

\* A task that succeeds is the next of the release if the ones before it were done.
Counted(name) ==
    /\ release' = IF outcome' = "ok" /\ startedBy = "task" /\ release = Order[name] - 1 THEN Order[name] ELSE release
    /\ UNCHANGED <<startedBy, interventions>>

\* The tasks pass --from-manifest; by hand any version can be given.
StartTool ==
    \/ Versionize(TRUE, NoVersion) /\ Started("versionize", "task")
    \/ \E v \in Versions : Versionize(FALSE, v) /\ Started("versionize", "hand")
    \/ Flagerize(TRUE, NoVersion) /\ Started("flagerize", "task")
    \/ \E v \in Versions : Flagerize(FALSE, v) /\ Started("flagerize", "hand")
    \/ \E found \in BOOLEAN : Ghcomponentize(found) /\ Started("ghcomponentize", "task")
    \/ Yakerize /\ Started("yakerize", "task")

ToolStep ==
    \/ VersionizeStep /\ Counted("versionize")
    \/ StampFile /\ Counted("flagerize")
    \/ CreateGhuserComponent /\ Counted("ghcomponentize")
    \/ YakerizeStep /\ Counted("yakerize")

ToolKilled ==
    /\ VersionizeKilled \/ FlagerizeKilled \/ GhcomponentizeKilled \/ YakerizeKilled
    /\ Intervene
    /\ UNCHANGED <<release, startedBy>>

\* pypireize is not part of the chain: nothing a later task reads is made by it.
PypireizeTask == Pypireize /\ UNCHANGED <<release, startedBy, interventions>>

-----------------------------------------------------------------------------
(* The developer, between two runs.                                        *)

Edit(keeps) ==
    /\ Idle
    /\ Intervene
    /\ release' = AtMost(keeps)
    /\ UNCHANGED <<running, startedBy>>

EditManifest ==
    /\ Edit(0)
    /\ \E v \in Versions : WellFormed(v) /\ manifest' = File(v)
    /\ UNCHANGED <<setup, init, cmake, sources, products>>

\* The text changes (or is restored), or lines are put above the stamp.
EditCode ==
    /\ Edit(1)
    /\ \E c \in bundles :
          \/ code' = [code EXCEPT ![c].text = @ + 1]
          \/ /\ code[c].text > 0
             /\ code' = [code EXCEPT ![c].head = {}, ![c].deep = @ \cup code[c].head]
    /\ UNCHANGED <<versionFiles, bundles, metadata, products>>

EditMetadata ==
    /\ Edit(2)
    /\ \E c \in bundles, data \in Metadata : metadata' = [metadata EXCEPT ![c] = data]
    /\ UNCHANGED <<versionFiles, bundles, code, products>>

\* A component is given up; its .ghuser stays.
RemoveBundle ==
    /\ Edit(2)
    /\ \E c \in bundles : bundles' = bundles \ {c}
    /\ UNCHANGED <<versionFiles, code, metadata, products>>

\* What was built is thrown away: ./build/gh, or all of ./build and the package with it.
RemoveBuild ==
    /\ Edit(2)
    /\ targetDir' \in {"missing", "noParent"}
    /\ ghuser' = [c \in Components |-> NoGhuser]
    /\ yak' = IF targetDir' = "noParent" THEN NoYak ELSE yak
    /\ UNCHANGED <<versionFiles, sources>>

Developer == EditManifest \/ EditCode \/ EditMetadata \/ RemoveBundle \/ RemoveBuild

Next == StartTool \/ ToolStep \/ ToolKilled \/ PypireizeTask \/ Developer

Spec == Init /\ [][Next]_pipelineVars

\* A tool that runs goes on; the developer need not do anything.
FairSpec == Spec /\ WF_pipelineVars(ToolStep)

-----------------------------------------------------------------------------
(* Properties.                                                             *)

VersionFilesOK ==
    manifest \in VersionFile /\ setup \in VersionFile /\ init \in VersionFile /\ cmake \in VersionFile
SourcesOK ==
    bundles \subseteq Components /\ code \in [Components -> CodeFile] /\ metadata \in [Components -> Metadata]
ProductsOK ==
    /\ targetDir \in {"there", "missing", "noParent"}
    /\ DOMAIN ghuser = Components /\ DOMAIN yak.contents = Components
RunningOK ==
    /\ tool \in {"", "versionize", "flagerize", "ghcomponentize", "yakerize"}
    /\ step \in {"", "manifest", "setup", "init", "cmake", "stamp", "build", "check", "copy"}
    /\ version \in Versions \cup {NoVersion}
    /\ todo \subseteq bundles
    /\ outcome \in {"", "ok", "failed"}
ReleaseOK ==
    release \in 0 .. 4 /\ startedBy \in {"task", "hand"} /\ interventions \in Nat

\* Every variable has its type.
TypeOK == VersionFilesOK /\ SourcesOK /\ ProductsOK /\ RunningOK /\ ReleaseOK

\* When the four tasks of a release have succeeded, the package has the manifest's
\* version, and every component in it is the one in the sources, stamped with that
\* version and with no other near its top.  It takes all four tools to keep it.
ReleaseIsConsistent ==
    release = 4 =>
        /\ yak.exists /\ yak.version = manifest.version
        /\ setup.version = manifest.version /\ init.version = manifest.version
        /\ \A c \in bundles :
              /\ yak.contents[c] = Compiled(c)
              /\ code[c].text > 0
              /\ code[c].head = {manifest.version}

\* flagerize only reports success when every code.py carries its stamp, and none has
\* been emptied by an interrupted run before it.
FlagerizeOkMeansAllStamped ==
    [][tool = "flagerize" /\ outcome' = "ok" =>
          \A c \in bundles : code'[c].head = {version} /\ code'[c].text > 0]_pipelineVars

\* yakerize only reports success for a package of this run, made from the manifest and
\* the component files as they are: what an earlier run left cannot pass for it.
YakerizeOkMeansRepacked ==
    [][tool = "yakerize" /\ outcome' = "ok" => yak' = YakOf(manifest.version, ghuser)]_pipelineVars

\* As long as every part of a version has one digit, versionize only raises the
\* version of a file.  (0.9.0 replaces 0.10.0: they are compared as strings.)
OneDigit(v) == \A i \in DOMAIN v : v[i] < 10
Smaller(v, w) == \E i \in DOMAIN v : v[i] < w[i] /\ \A j \in 1 .. i - 1 : v[j] = w[j]
Raised(file, fileAfter) ==
    \/ fileAfter.version \in {file.version, NoVersion}
    \/ ~OneDigit(file.version) \/ ~OneDigit(fileAfter.version)
    \/ Smaller(file.version, fileAfter.version)
VersionsOnlyRise ==
    [][tool = "versionize" =>
          Raised(manifest, manifest') /\ Raised(setup, setup') /\ Raised(init, init')]_pipelineVars

\* The files are rewritten one after the other, whatever version is asked for and
\* wherever versionize is interrupted: __init__.py is never ahead of setup.py.
InitNotAhead ==
    setup.version # NoVersion /\ init.version # NoVersion =>
        StringLeq(Text(init.version), Text(setup.version))

-----------------------------------------------------------------------------
(* The inductive invariant.                                                *)

ManifestReadable == manifest.version = NoVersion \/ WellFormed(manifest.version)

VersionsAgree == setup.version = manifest.version /\ init.version = manifest.version
StampedWith(v, done) == \A c \in done : code[c].head = {v} /\ code[c].text > 0
BuiltFromSources(done) == \A c \in done : ghuser[c] = Compiled(c)
PackedAsBuilt ==
    /\ yak.exists /\ yak.version = manifest.version
    /\ \A c \in bundles : yak.contents[c] = ghuser[c]

\* What every task of the release that was done stands for.
Released ==
    /\ release >= 1 => VersionsAgree
    /\ release >= 2 => StampedWith(manifest.version, bundles)
    /\ release >= 3 => BuiltFromSources(bundles)
    /\ release = 4 => PackedAsBuilt

\* How far the running tool has come.
Unfinished == IF tool = "" THEN todo = {} ELSE outcome = ""
Versionizing ==
    tool = "versionize" =>
        /\ release = 0
        /\ startedBy = "task" => version = manifest.version /\ version # NoVersion /\ step # "manifest"
        /\ startedBy = "task" /\ step \in {"init", "cmake"} => setup.version = version
        /\ startedBy = "task" /\ step = "cmake" => init.version = version
Stamping ==
    tool = "flagerize" =>
        /\ release <= 1
        /\ version \in Versions
        /\ startedBy = "task" => version = manifest.version
        /\ StampedWith(version, bundles \ todo)
Building ==
    tool = "ghcomponentize" => release <= 2 /\ BuiltFromSources(bundles \ todo)
Packing ==
    tool = "yakerize" => release <= 3 /\ (step = "build" => yak = NoYak)

\* The files the sources and the package are made of agree as far as the release has
\* come, and the running tool has treated what it no longer has to.
Progress ==
    /\ TypeOK /\ ManifestReadable /\ Released
    /\ Unfinished /\ Versionizing /\ Stamping /\ Building /\ Packing

\* setup.py and __init__.py hold a version or none, in order, and versionize has
\* written setup.py when it comes to __init__.py.
FilesInOrder ==
    /\ \A file \in {setup, init} : file.version = NoVersion \/ WellFormed(file.version)
    /\ At("versionize", "init") => setup.version = AsRead(version)
    /\ InitNotAhead

IInv == Progress /\ FilesInOrder

\* Every tool ends.
ToolsEnd == ~Idle ~> Idle
=============================================================================
