----------------------- MODULE ReleasePipeline_proofs -----------------------
(***************************************************************************)
(* Proofs about ReleasePipeline, for all components, versions, metadata    *)
(* and any number of interventions: what a task has done stays done until  *)
(* the release goes back to before it; and versionize keeps the version    *)
(* files in order, for strings are totally ordered.                        *)
(***************************************************************************)
EXTENDS ReleasePipeline, NaturalsInduction, WellFoundedInduction, TLAPS

\* The version found where one was written is a version or none.
LEMMA AsReadType ==
    ASSUME NEW v \in Versions \cup {NoVersion}
    PROVE  File(AsRead(v)) \in VersionFile /\ (AsRead(v) = NoVersion \/ WellFormed(AsRead(v)))
  BY DEF AsRead, File, VersionFile

LEMMA FileType ==
    ASSUME NEW v \in Versions \cup {NoVersion}
    PROVE  File(v) \in VersionFile /\ File(v).version = v
  BY DEF File, VersionFile

\* The invariant holds at the start.
LEMMA InitInvariant == Init => Progress
<1>. SUFFICES ASSUME Init PROVE Progress
  OBVIOUS
<1>1. manifest = NoFile \/ \E v \in Versions : WellFormed(v) /\ manifest = File(v)
  BY DEF Init
<1>2. manifest \in VersionFile /\ ManifestReadable
  <2>1. CASE manifest = NoFile
    BY <2>1 DEF NoFile, VersionFile, ManifestReadable
  <2>2. CASE \E v \in Versions : WellFormed(v) /\ manifest = File(v)
    BY <2>2, FileType DEF ManifestReadable
  <2>. QED
    BY <1>1, <2>1, <2>2
<1>3. setup \in VersionFile /\ init \in VersionFile /\ cmake \in VersionFile
  <2>1. File(NoVersion) \in VersionFile /\ NoFile \in VersionFile
    BY FileType DEF VersionFile, NoFile
  <2>2. cmake \in VersionFile
    BY <2>1 DEF Init
  <2>3. CASE \E w \in Versions : WellFormed(w) /\ setup = File(w) /\ init = File(w)
    BY <2>2, <2>3, FileType
  <2>4. CASE setup = File(NoVersion) /\ init = NoFile
    BY <2>1, <2>2, <2>4
  <2>. QED
    BY <2>3, <2>4 DEF Init
<1>4. SourcesOK
  BY DEF Init, SourcesOK, CodeFile
<1>5. ProductsOK
  BY DEF Init, ProductsOK, NoYak
<1>6. RunningOK /\ tool = "" /\ Unfinished
  <2>1. tool = "" /\ step = "" /\ version = NoVersion /\ todo = {} /\ outcome = ""
    BY DEF Init
  <2>. QED
    BY <2>1 DEF RunningOK, Unfinished
<1>7. ReleaseOK /\ release = 0
  <2>1. release = 0 /\ startedBy = "task" /\ interventions = 0
    BY DEF Init
  <2>. QED
    BY <2>1 DEF ReleaseOK
<1>8. TypeOK
  BY <1>2, <1>3, <1>4, <1>5, <1>6, <1>7 DEF TypeOK, VersionFilesOK
<1>9. Released
  BY <1>7 DEF Released
<1>10. Versionizing /\ Stamping /\ Building /\ Packing
  BY <1>6 DEF Versionizing, Stamping, Building, Packing
<1>. QED
  BY <1>2, <1>6, <1>8, <1>9, <1>10 DEF Progress

-----------------------------------------------------------------------------
(* What a step does to the release, and to a tool that ends.               *)

\* As far as the release still counts after a step that changed nothing it stands on,
\* what was done stays done.
LEMMA Kept ==
    ASSUME Released, ReleaseOK, release' \in 0 .. release,
           release' >= 1 => UNCHANGED <<manifest, setup, init>>,
           release' >= 2 => code' = code /\ bundles' \subseteq bundles,
           release' >= 3 => UNCHANGED <<ghuser, metadata, bundles>>,
           release' = 4 => yak' = yak
    PROVE  Released'
<1>. release \in 0 .. 4
  BY DEF ReleaseOK
<1>1. release' >= 1 => VersionsAgree'
  BY DEF Released, VersionsAgree
<1>2. release' >= 2 => StampedWith(manifest.version, bundles)'
  <2>. SUFFICES ASSUME release' >= 2 PROVE StampedWith(manifest.version, bundles)'
    OBVIOUS
  <2>1. StampedWith(manifest.version, bundles) /\ manifest' = manifest
    BY DEF Released
  <2>. QED
    BY <2>1 DEF StampedWith
<1>3. release' >= 3 => BuiltFromSources(bundles)'
  <2>. SUFFICES ASSUME release' >= 3 PROVE BuiltFromSources(bundles)'
    OBVIOUS
  <2>1. BuiltFromSources(bundles) /\ code' = code
    BY DEF Released
  <2>. QED
    BY <2>1 DEF BuiltFromSources, Compiled
<1>4. release' = 4 => PackedAsBuilt'
  <2>. SUFFICES ASSUME release' = 4 PROVE PackedAsBuilt'
    OBVIOUS
  <2>1. PackedAsBuilt /\ release' >= 1 /\ release' >= 3
    BY DEF Released
  <2>. QED
    BY <2>1 DEF PackedAsBuilt
<1>. QED
  BY <1>1, <1>2, <1>3, <1>4 DEF Released

\* Nothing has to hold of a tool that has ended.
LEMMA Ended ==
    ASSUME NEW how \in {"ok", "failed"}, End(how)
    PROVE  RunningOK' /\ Unfinished' /\ Versionizing' /\ Stamping' /\ Building' /\ Packing'
<1>1. tool' = "" /\ step' = "" /\ version' = NoVersion /\ todo' = {} /\ outcome' \in {"ok", "failed"}
  BY DEF End
<1>2. RunningOK'
  BY <1>1 DEF RunningOK
<1>3. Unfinished' /\ Versionizing' /\ Stamping' /\ Building' /\ Packing'
  BY <1>1 DEF Unfinished, Versionizing, Stamping, Building, Packing
<1>. QED
  BY <1>2, <1>3

\* A tool that starts has the types of a running tool.
LEMMA Begun ==
    ASSUME NEW name \in {"versionize", "flagerize", "ghcomponentize", "yakerize"},
           NEW first \in {"manifest", "setup", "stamp", "build", "check"},
           NEW v \in Versions \cup {NoVersion},
           NEW treat, treat \subseteq bundles, UNCHANGED bundles,
           Begin(name, first, v, treat)
    PROVE  RunningOK' /\ Unfinished'
  BY DEF Begin, RunningOK, Unfinished

\* The files keep their types when nothing is written.
LEMMA FilesKept ==
    ASSUME TypeOK, ManifestReadable, UNCHANGED <<versionFiles, sources, products>>
    PROVE  VersionFilesOK' /\ SourcesOK' /\ ProductsOK' /\ ManifestReadable'
<1>1. UNCHANGED <<manifest, setup, init, cmake>>
  BY DEF versionFiles
<1>2. VersionFilesOK' /\ ManifestReadable'
  BY <1>1 DEF TypeOK, VersionFilesOK, ManifestReadable
<1>3. SourcesOK'
  BY DEF TypeOK, SourcesOK, sources
<1>4. ProductsOK'
  BY DEF TypeOK, ProductsOK, products
<1>. QED
  BY <1>2, <1>3, <1>4

\* A step of a tool raises the release when the tool succeeds in its turn, or not at all.
LEMMA CountedRaises ==
    ASSUME ReleaseOK, NEW name \in {"versionize", "flagerize", "ghcomponentize", "yakerize"}, Counted(name)
    PROVE  /\ ReleaseOK' /\ startedBy' = startedBy
           /\ \/ release' = release
              \/ /\ release = Order[name] - 1 /\ release' = Order[name]
                 /\ outcome' = "ok" /\ startedBy = "task"
<1>1. Order[name] \in 1 .. 4
  BY DEF Order
<1>2. startedBy' = startedBy /\ interventions' = interventions
  BY DEF Counted
<1>3. \/ release' = release
      \/ release = Order[name] - 1 /\ release' = Order[name] /\ outcome' = "ok" /\ startedBy = "task"
  BY DEF Counted
<1>4. release' \in 0 .. 4
  BY <1>1, <1>3 DEF ReleaseOK
<1>. QED
  BY <1>2, <1>3, <1>4 DEF ReleaseOK

\* The start of a tool puts the release back and leaves its type.
LEMMA StartLowers ==
    ASSUME ReleaseOK, NEW name \in {"versionize", "flagerize", "ghcomponentize", "yakerize"},
           NEW how \in {"task", "hand"}, Started(name, how)
    PROVE  ReleaseOK' /\ startedBy' = how /\ release' \in 0 .. release /\ release' <= Order[name] - 1
<1>1. Order[name] \in 1 .. 4
  BY DEF Order
<1>2. startedBy' = how /\ interventions' \in Nat
  BY DEF Started, Intervene, ReleaseOK
<1>3. release \in 0 .. 4 /\ release' = AtMost(Order[name] - 1)
  BY DEF Started, ReleaseOK
<1>4. release' \in 0 .. release /\ release' <= Order[name] - 1
  BY <1>1, <1>3 DEF AtMost
<1>. QED
  BY <1>2, <1>3, <1>4 DEF ReleaseOK

-----------------------------------------------------------------------------
(* versionize.                                                             *)

\* A task asks for the manifest's version.
LEMMA AskedType ==
    ASSUME VersionFilesOK, NEW fromManifest \in BOOLEAN, NEW given \in Versions \cup {NoVersion}
    PROVE  Asked(fromManifest, given) \in Versions \cup {NoVersion}
  BY DEF Asked, VersionFilesOK, VersionFile

LEMMA AskedOfManifest ==
    ASSUME NEW given PROVE Asked(TRUE, given) = manifest.version
  BY DEF Asked

LEMMA VersionizeStarts ==
    ASSUME Progress, NEW fromManifest \in BOOLEAN, NEW given \in Versions \cup {NoVersion},
           NEW how \in {"task", "hand"}, how = "task" => fromManifest = TRUE,
           Versionize(fromManifest, given), Started("versionize", how)
    PROVE  Progress'
<1>. DEFINE asked == Asked(fromManifest, given)
            first == IF fromManifest THEN "setup" ELSE "manifest"
<1>1. TypeOK /\ ManifestReadable /\ Released
  BY DEF Progress
<1>2. UNCHANGED <<versionFiles, sources, products>>
  BY DEF Versionize
<1>3. VersionFilesOK' /\ SourcesOK' /\ ProductsOK' /\ ManifestReadable'
  BY <1>1, <1>2, FilesKept
<1>4. ReleaseOK' /\ startedBy' = how /\ release' \in 0 .. release /\ release' <= 0
  BY <1>1, StartLowers DEF TypeOK, Order
<1>5. Released'
  BY <1>1, <1>4, Kept DEF TypeOK
<1>6. CASE asked = NoVersion
  <2>1. End("failed")
    BY <1>6 DEF Versionize
  <2>. QED
    BY <1>3, <1>4, <1>5, <2>1, Ended DEF Progress, TypeOK
<1>7. CASE asked # NoVersion
  <2>1. Begin("versionize", first, asked, {})
    BY <1>7 DEF Versionize
  <2>2. asked \in Versions \cup {NoVersion}
    BY <1>1, AskedType DEF TypeOK
  <2>3. first \in {"manifest", "setup", "stamp", "build", "check"}
    OBVIOUS
  <2>4. bundles' = bundles
    BY <1>2 DEF sources
  <2>5. RunningOK' /\ Unfinished'
    BY <2>1, <2>2, <2>3, <2>4, Begun
  <2>6. tool' = "versionize" /\ step' = first /\ version' = asked
    BY <2>1 DEF Begin
  <2>7. release' = 0
    BY <1>4
  <2>8. startedBy' = "task" => version' = manifest'.version /\ version' # NoVersion /\ step' = "setup"
    BY <1>2, <1>4, <1>7, <2>6, AskedOfManifest DEF versionFiles
  <2>9. Versionizing'
    BY <2>6, <2>7, <2>8 DEF Versionizing
  <2>10. Stamping' /\ Building' /\ Packing'
    BY <2>6 DEF Stamping, Building, Packing
  <2>. QED
    BY <1>3, <1>4, <1>5, <2>5, <2>9, <2>10 DEF Progress, TypeOK
<1>. QED
  BY <1>6, <1>7

\* The version versionize writes is found again when it is read.
LEMMA WrittenVersion ==
    ASSUME ManifestReadable, version = manifest.version, version # NoVersion
    PROVE  File(AsRead(version)).version = version
  BY DEF ManifestReadable, AsRead, File

LEMMA VersionizeSteps ==
    ASSUME Progress, VersionizeStep, Counted("versionize")
    PROVE  Progress'
<1>1. TypeOK /\ ManifestReadable /\ Released /\ Unfinished /\ Versionizing
  BY DEF Progress
<1>2. tool = "versionize" /\ release = 0 /\ outcome = ""
  BY <1>1 DEF VersionizeStep, UpdateManifest, UpdateSetup, UpdateInit, UpdateCmake, Update, At, Versionizing, Unfinished
<1>3. UNCHANGED <<sources, products>>
  BY DEF VersionizeStep, UpdateManifest, UpdateSetup, UpdateInit, UpdateCmake, Update
<1>4. SourcesOK' /\ ProductsOK'
  BY <1>1, <1>3 DEF TypeOK, SourcesOK, ProductsOK, sources, products
<1>5. File(AsRead(version)) \in VersionFile
  BY <1>1, AsReadType DEF TypeOK, RunningOK
<1>6. VersionFilesOK'
  BY <1>1, <1>5 DEF TypeOK, VersionFilesOK, VersionizeStep, UpdateManifest, UpdateSetup, UpdateInit, UpdateCmake, Update
<1>7. ManifestReadable'
  <2>1. manifest' = manifest \/ manifest' = File(AsRead(version))
    BY DEF VersionizeStep, UpdateManifest, UpdateSetup, UpdateInit, UpdateCmake, Update
  <2>2. AsRead(version) = NoVersion \/ WellFormed(AsRead(version))
    BY <1>1, AsReadType DEF TypeOK, RunningOK
  <2>3. File(AsRead(version)).version = AsRead(version)
    BY DEF File
  <2>. QED
    BY <1>1, <2>1, <2>2, <2>3 DEF ManifestReadable
<1>8. ReleaseOK' /\ startedBy' = startedBy /\ (release' = 0 \/ (release' = 1 /\ outcome' = "ok" /\ startedBy = "task"))
  <2>1. Order["versionize"] = 1
    BY DEF Order
  <2>2. /\ ReleaseOK' /\ startedBy' = startedBy
        /\ \/ release' = release
           \/ (release' = Order["versionize"] /\ outcome' = "ok" /\ startedBy = "task")
    BY <1>1, CountedRaises DEF TypeOK
  <2>. QED
    BY <1>2, <2>1, <2>2
<1>9. ASSUME release' = 0 PROVE Released'
  BY <1>1, <1>9, Kept, <1>8 DEF TypeOK, Released
<1>10. ASSUME NEW next \in {"setup", "init", "cmake"}, Goto(next),
              startedBy = "task" => /\ next # "setup" /\ version' = manifest'.version /\ version' # NoVersion
                                    /\ setup'.version = version'
                                    /\ next = "cmake" => init'.version = version'
       PROVE  Progress'
  <2>1. step' = next /\ UNCHANGED <<tool, version, todo, outcome>>
    BY <1>10 DEF Goto
  <2>2. RunningOK' /\ Unfinished'
    BY <1>1, <1>2, <1>3, <2>1 DEF TypeOK, RunningOK, Unfinished, sources
  <2>3. release' = 0
    BY <1>2, <1>8, <2>1
  <2>4. Versionizing'
    BY <1>8, <1>10, <2>1, <2>3 DEF Versionizing
  <2>5. Stamping' /\ Building' /\ Packing'
    BY <1>2, <2>1 DEF Stamping, Building, Packing
  <2>. QED
    BY <1>4, <1>6, <1>7, <1>8, <1>9, <2>2, <2>3, <2>4, <2>5 DEF Progress, TypeOK
<1>11. ASSUME NEW how \in {"ok", "failed"}, End(how), how = "ok" /\ startedBy = "task" => VersionsAgree'
       PROVE  Progress'
  <2>1. outcome' = how
    BY <1>11 DEF End
  <2>2. Released'
    <3>1. CASE release' = 0
      BY <3>1, <1>9
    <3>2. CASE release' = 1
      BY <3>2, <1>8, <1>11, <2>1 DEF Released
    <3>. QED
      BY <1>8, <3>1, <3>2
  <2>. QED
    BY <1>4, <1>6, <1>7, <1>8, <1>11, <2>2, Ended DEF Progress, TypeOK
<1>12. CASE UpdateManifest
  <2>1. step = "manifest" /\ startedBy # "task"
    BY <1>1, <1>2, <1>12 DEF UpdateManifest, Update, At, Versionizing
  <2>2. Goto("setup") \/ End("failed")
    BY <1>12 DEF UpdateManifest, Update
  <2>. QED
    BY <2>1, <2>2, <1>10, <1>11
<1>13. CASE UpdateSetup
  <2>1. (Goto("init") /\ setup' = File(AsRead(version))) \/ End("failed")
    BY <1>13 DEF UpdateSetup, Update
  <2>2. manifest' = manifest
    BY <1>13 DEF UpdateSetup
  <2>3. CASE Goto("init") /\ setup' = File(AsRead(version))
    <3>1. version' = version
      BY <2>3 DEF Goto
    <3>2. startedBy = "task" => version = manifest.version /\ version # NoVersion
      BY <1>1, <1>2 DEF Versionizing
    <3>3. startedBy = "task" => setup'.version = version
      BY <1>1, <2>3, <3>2, WrittenVersion
    <3>. QED
      BY <2>2, <2>3, <3>1, <3>2, <3>3, <1>10
  <2>. QED
    BY <2>1, <2>3, <1>11
<1>14. CASE UpdateInit
  <2>1. (Goto("cmake") /\ init' = File(AsRead(version))) \/ End("failed")
    BY <1>14 DEF UpdateInit, Update
  <2>2. manifest' = manifest /\ setup' = setup /\ step = "init"
    BY <1>14 DEF UpdateInit, Update, At
  <2>3. CASE Goto("cmake") /\ init' = File(AsRead(version))
    <3>1. version' = version
      BY <2>3 DEF Goto
    <3>2. startedBy = "task" => version = manifest.version /\ version # NoVersion /\ setup.version = version
      BY <1>1, <1>2, <2>2 DEF Versionizing
    <3>3. startedBy = "task" => init'.version = version
      BY <1>1, <2>3, <3>2, WrittenVersion
    <3>. QED
      BY <2>2, <2>3, <3>1, <3>2, <3>3, <1>10
  <2>. QED
    BY <2>1, <2>3, <1>11
<1>15. CASE UpdateCmake
  <2>1. UNCHANGED <<manifest, setup, init>> /\ step = "cmake"
    BY <1>15 DEF UpdateCmake, At
  <2>2. startedBy = "task" => VersionsAgree'
    BY <1>1, <1>2, <2>1 DEF Versionizing, VersionsAgree
  <2>3. End("ok") \/ End("failed")
    BY <1>15 DEF UpdateCmake
  <2>. QED
    BY <2>2, <2>3, <1>11
<1>. QED
  BY <1>12, <1>13, <1>14, <1>15 DEF VersionizeStep

LEMMA VersionizeInterrupted ==
    ASSUME Progress, VersionizeKilled, Intervene, UNCHANGED <<release, startedBy>>
    PROVE  Progress'
<1>1. TypeOK /\ ManifestReadable /\ Released /\ Versionizing
  BY DEF Progress
<1>2. release = 0 /\ release' = 0
  BY <1>1 DEF VersionizeKilled, Versionizing
<1>3. ReleaseOK'
  BY <1>1 DEF TypeOK, ReleaseOK, Intervene
<1>4. Released'
  BY <1>1, <1>2, Kept DEF TypeOK, Released
<1>5. SourcesOK' /\ ProductsOK'
  BY <1>1 DEF VersionizeKilled, TypeOK, SourcesOK, ProductsOK, sources, products
<1>6. File(NoVersion) \in VersionFile /\ File(NoVersion).version = NoVersion
  BY FileType
<1>7. /\ manifest' \in {manifest, File(NoVersion)} /\ setup' \in {setup, File(NoVersion)}
      /\ init' \in {init, File(NoVersion)} /\ cmake' \in {cmake, File(NoVersion)}
  BY DEF VersionizeKilled, Emptied
<1>8. VersionFilesOK'
  BY <1>1, <1>6, <1>7 DEF TypeOK, VersionFilesOK
<1>9. ManifestReadable'
  BY <1>1, <1>6, <1>7 DEF ManifestReadable
<1>10. End("failed")
  BY DEF VersionizeKilled
<1>. QED
  BY <1>3, <1>4, <1>5, <1>8, <1>9, <1>10, Ended DEF Progress, TypeOK

-----------------------------------------------------------------------------
(* flagerize.                                                              *)

LEMMA FlagerizeStarts ==
    ASSUME Progress, NEW fromManifest \in BOOLEAN, NEW given \in Versions \cup {NoVersion},
           NEW how \in {"task", "hand"}, how = "task" => fromManifest = TRUE,
           Flagerize(fromManifest, given), Started("flagerize", how)
    PROVE  Progress'
<1>. DEFINE asked == Asked(fromManifest, given)
<1>1. TypeOK /\ ManifestReadable /\ Released
  BY DEF Progress
<1>2. UNCHANGED <<versionFiles, sources, products>>
  BY DEF Flagerize
<1>3. VersionFilesOK' /\ SourcesOK' /\ ProductsOK' /\ ManifestReadable'
  BY <1>1, <1>2, FilesKept
<1>4. ReleaseOK' /\ startedBy' = how /\ release' \in 0 .. release /\ release' <= 1
  <2>1. Order["flagerize"] - 1 = 1
    BY DEF Order
  <2>. QED
    BY <1>1, <2>1, StartLowers DEF TypeOK
<1>5. Released'
  BY <1>1, <1>2, <1>4, Kept DEF TypeOK, versionFiles, sources, products
<1>6. CASE ~(WellFormed(asked) /\ bundles # {})
  <2>1. End("failed")
    BY <1>6 DEF Flagerize
  <2>. QED
    BY <1>3, <1>4, <1>5, <2>1, Ended DEF Progress, TypeOK
<1>7. CASE WellFormed(asked) /\ bundles # {}
  <2>1. Begin("flagerize", "stamp", asked, bundles)
    BY <1>7 DEF Flagerize
  <2>2. asked \in Versions \cup {NoVersion}
    BY <1>1, AskedType DEF TypeOK
  <2>3. bundles' = bundles /\ manifest' = manifest
    BY <1>2 DEF sources, versionFiles
  <2>4. RunningOK' /\ Unfinished'
    BY <2>1, <2>2, <2>3, Begun
  <2>5. tool' = "flagerize" /\ version' = asked /\ todo' = bundles
    BY <2>1 DEF Begin
  <2>6. asked \in Versions
    <3>1. asked # NoVersion
      BY <1>7 DEF WellFormed, NoVersion
    <3>. QED
      BY <2>2, <3>1
  <2>7. startedBy' = "task" => version' = manifest'.version
    BY <1>4, <2>3, <2>5, AskedOfManifest
  <2>8. StampedWith(version, bundles \ todo)'
    BY <2>3, <2>5 DEF StampedWith
  <2>9. Stamping'
    BY <1>4, <2>5, <2>6, <2>7, <2>8 DEF Stamping
  <2>10. Versionizing' /\ Building' /\ Packing'
    BY <2>5 DEF Versionizing, Building, Packing
  <2>. QED
    BY <1>3, <1>4, <1>5, <2>4, <2>9, <2>10 DEF Progress, TypeOK
<1>. QED
  BY <1>6, <1>7

\* A code.py that is stamped, and one that is emptied, are code.py files.
LEMMA StampedType ==
    ASSUME NEW file \in CodeFile, version \in Versions
    PROVE  /\ Stamped(file) \in CodeFile /\ EmptyFile \in CodeFile
           /\ Stamped(file).head = {version} /\ Stamped(file).text = file.text
  BY DEF CodeFile, Stamped, EmptyFile

\* What StampFile does, for one of its files.
LEMMA StampFileCases ==
    ASSUME Progress, StampFile
    PROVE  \E c \in todo :
              /\ tool = "flagerize" /\ release <= 1 /\ outcome = ""
              /\ UNCHANGED <<versionFiles, bundles, metadata, products>>
              /\ \/ code' = [code EXCEPT ![c] = EmptyFile] /\ End("failed")
                 \/ /\ code[c].text # 0 /\ code' = [code EXCEPT ![c] = Stamped(@)]
                    /\ \/ todo = {c} /\ End("ok")
                       \/ todo' = todo \ {c} /\ UNCHANGED <<tool, step, version, outcome>>
<1>1. Stamping /\ Unfinished
  BY DEF Progress
<1>2. tool = "flagerize"
  BY DEF StampFile, At
<1>3. release <= 1 /\ outcome = ""
  BY <1>1, <1>2 DEF Stamping, Unfinished
<1>. QED
  BY <1>2, <1>3 DEF StampFile

LEMMA FlagerizeSteps ==
    ASSUME Progress, StampFile, Counted("flagerize")
    PROVE  Progress'
<1>1. TypeOK /\ ManifestReadable /\ Released /\ Stamping
  BY DEF Progress
<1>2. PICK c \in todo :
              /\ tool = "flagerize" /\ release <= 1 /\ outcome = ""
              /\ UNCHANGED <<versionFiles, bundles, metadata, products>>
              /\ \/ code' = [code EXCEPT ![c] = EmptyFile] /\ End("failed")
                 \/ /\ code[c].text # 0 /\ code' = [code EXCEPT ![c] = Stamped(@)]
                    /\ \/ todo = {c} /\ End("ok")
                       \/ todo' = todo \ {c} /\ UNCHANGED <<tool, step, version, outcome>>
  BY StampFileCases
<1>3. /\ version \in Versions /\ StampedWith(version, bundles \ todo)
      /\ startedBy = "task" => version = manifest.version
  BY <1>1, <1>2 DEF Stamping
<1>4. c \in bundles /\ code \in [Components -> CodeFile] /\ bundles \subseteq Components
  BY <1>1 DEF TypeOK, SourcesOK, RunningOK
<1>5. code[c] \in CodeFile
  BY <1>4
<1>6. SourcesOK'
  <2>1. code' \in [Components -> CodeFile]
    BY <1>2, <1>3, <1>4, <1>5, StampedType
  <2>. QED
    BY <1>1, <1>2, <2>1 DEF TypeOK, SourcesOK
<1>7. VersionFilesOK' /\ ManifestReadable'
  BY <1>1, <1>2 DEF TypeOK, VersionFilesOK, ManifestReadable, versionFiles
<1>8. ProductsOK'
  BY <1>1, <1>2 DEF TypeOK, ProductsOK, products
<1>9. /\ ReleaseOK' /\ startedBy' = startedBy
      /\ \/ release' = release
         \/ (release = 1 /\ release' = 2 /\ outcome' = "ok" /\ startedBy = "task")
  <2>1. Order["flagerize"] = 2
    BY DEF Order
  <2>2. /\ ReleaseOK' /\ startedBy' = startedBy
        /\ \/ release' = release
           \/ (release = Order["flagerize"] - 1 /\ release' = Order["flagerize"] /\ outcome' = "ok" /\ startedBy = "task")
    BY <1>1, CountedRaises DEF TypeOK
  <2>. QED
    BY <2>1, <2>2
<1>10. ASSUME release' = release PROVE Released'
  <2>1. release' \in 0 .. release /\ release' <= 1
    <3>1. release \in 0 .. 4
      BY <1>1 DEF TypeOK, ReleaseOK
    <3>2. release <= 1
      BY <1>2
    <3>. QED
      BY <1>10, <3>1, <3>2
  <2>2. UNCHANGED <<manifest, setup, init>>
    BY <1>2 DEF versionFiles
  <2>. QED
    BY <1>1, <2>1, <2>2, Kept DEF TypeOK
<1>11. CASE code' = [code EXCEPT ![c] = EmptyFile] /\ End("failed")
  <2>1. release' = release
    BY <1>9, <1>11 DEF End
  <2>. QED
    BY <1>6, <1>7, <1>8, <1>9, <1>10, <1>11, <2>1, Ended DEF Progress, TypeOK
<1>12. ASSUME code[c].text # 0, code' = [code EXCEPT ![c] = Stamped(@)]
       PROVE  \A b \in (bundles \ todo) \cup {c} : code'[b].head = {version} /\ code'[b].text > 0
  <2>1. code'[c] = Stamped(code[c]) /\ \A b \in Components \ {c} : code'[b] = code[b]
    BY <1>4, <1>12
  <2>2. code[c].text \in Nat
    BY <1>5 DEF CodeFile
  <2>3. code'[c].head = {version} /\ code'[c].text > 0
    BY <1>3, <1>5, <1>12, <2>1, <2>2, StampedType
  <2>4. \A b \in (bundles \ todo) \ {c} : code'[b].head = {version} /\ code'[b].text > 0
    BY <1>3, <1>4, <2>1 DEF StampedWith
  <2>. QED
    BY <2>3, <2>4
<1>13. CASE /\ code[c].text # 0 /\ code' = [code EXCEPT ![c] = Stamped(@)]
            /\ todo = {c} /\ End("ok")
  <2>1. \A b \in bundles' : code'[b].head = {version} /\ code'[b].text > 0
    BY <1>2, <1>12, <1>13
  <2>2. Released'
    <3>1. CASE release' = release
      BY <3>1, <1>10
    <3>2. CASE release = 1 /\ release' = 2 /\ startedBy = "task"
      <4>1. manifest' = manifest /\ setup' = setup /\ init' = init
        BY <1>2 DEF versionFiles
      <4>2. VersionsAgree'
        BY <1>1, <3>2, <4>1 DEF Released, VersionsAgree
      <4>3. StampedWith(manifest.version, bundles)'
        BY <1>3, <2>1, <3>2, <4>1 DEF StampedWith
      <4>. QED
        BY <3>2, <4>2, <4>3 DEF Released
    <3>. QED
      BY <1>9, <3>1, <3>2
  <2>. QED
    BY <1>6, <1>7, <1>8, <1>9, <1>13, <2>2, Ended DEF Progress, TypeOK
<1>14. CASE /\ code[c].text # 0 /\ code' = [code EXCEPT ![c] = Stamped(@)]
            /\ todo' = todo \ {c} /\ UNCHANGED <<tool, step, version, outcome>>
  <2>1. release' = release
    BY <1>2, <1>9, <1>14
  <2>2. RunningOK' /\ Unfinished'
    BY <1>1, <1>2, <1>14 DEF TypeOK, RunningOK, Unfinished
  <2>3. StampedWith(version, bundles \ todo)'
    BY <1>2, <1>12, <1>14 DEF StampedWith
  <2>4. manifest' = manifest
    BY <1>2 DEF versionFiles
  <2>5. Stamping'
    BY <1>2, <1>3, <1>9, <1>14, <2>1, <2>3, <2>4 DEF Stamping
  <2>6. Versionizing' /\ Building' /\ Packing'
    BY <1>2, <1>14 DEF Versionizing, Building, Packing
  <2>. QED
    BY <1>6, <1>7, <1>8, <1>9, <1>10, <2>1, <2>2, <2>5, <2>6 DEF Progress, TypeOK
<1>. QED
  BY <1>2, <1>11, <1>13, <1>14

LEMMA FlagerizeInterrupted ==
    ASSUME Progress, FlagerizeKilled, Intervene, UNCHANGED <<release, startedBy>>
    PROVE  Progress'
<1>1. TypeOK /\ ManifestReadable /\ Released /\ Stamping
  BY DEF Progress
<1>2. release <= 1 /\ version \in Versions
  BY <1>1 DEF FlagerizeKilled, Stamping
<1>3. UNCHANGED <<versionFiles, bundles, metadata, products>> /\ End("failed")
  BY DEF FlagerizeKilled
<1>4. ReleaseOK'
  BY <1>1 DEF TypeOK, ReleaseOK, Intervene
<1>5. Released'
  <2>1. UNCHANGED <<manifest, setup, init>>
    BY <1>3 DEF versionFiles
  <2>2. release' \in 0 .. release /\ release' <= 1
    BY <1>1, <1>2 DEF TypeOK, ReleaseOK
  <2>. QED
    BY <1>1, <2>1, <2>2, Kept DEF TypeOK
<1>6. SourcesOK'
  <2>1. EmptyFile \in CodeFile
    BY DEF EmptyFile, CodeFile
  <2>2. code' = code \/ \E c \in todo : code' = [code EXCEPT ![c] = EmptyFile]
    BY DEF FlagerizeKilled
  <2>3. code' \in [Components -> CodeFile]
    BY <1>1, <2>1, <2>2 DEF TypeOK, SourcesOK
  <2>. QED
    BY <1>1, <1>3, <2>3 DEF TypeOK, SourcesOK
<1>7. VersionFilesOK' /\ ManifestReadable'
  BY <1>1, <1>3 DEF TypeOK, VersionFilesOK, ManifestReadable, versionFiles
<1>8. ProductsOK'
  BY <1>1, <1>3 DEF TypeOK, ProductsOK, products
<1>. QED
  BY <1>3, <1>4, <1>5, <1>6, <1>7, <1>8, Ended DEF Progress, TypeOK

-----------------------------------------------------------------------------
(* ghcomponentize.                                                         *)

LEMMA GhcomponentizeStarts ==
    ASSUME Progress, NEW found \in BOOLEAN, Ghcomponentize(found), Started("ghcomponentize", "task")
    PROVE  Progress'
<1>1. TypeOK /\ ManifestReadable /\ Released
  BY DEF Progress
<1>2. UNCHANGED <<versionFiles, sources, ghuser, yak>>
  BY DEF Ghcomponentize
<1>3. VersionFilesOK' /\ ManifestReadable'
  BY <1>1, <1>2 DEF TypeOK, VersionFilesOK, ManifestReadable, versionFiles
<1>4. SourcesOK'
  BY <1>1, <1>2 DEF TypeOK, SourcesOK, sources
<1>5. ProductsOK'
  BY <1>1, <1>2 DEF TypeOK, ProductsOK, Ghcomponentize
<1>6. ReleaseOK' /\ release' \in 0 .. release /\ release' <= 2
  <2>1. Order["ghcomponentize"] - 1 = 2
    BY DEF Order
  <2>. QED
    BY <1>1, <2>1, StartLowers DEF TypeOK
<1>7. Released'
  BY <1>1, <1>2, <1>6, Kept DEF TypeOK, versionFiles, sources
<1>8. \/ \E how \in {"ok", "failed"} : End(how)
      \/ Begin("ghcomponentize", "build", NoVersion, bundles)
  BY DEF Ghcomponentize
<1>9. CASE \E how \in {"ok", "failed"} : End(how)
  BY <1>3, <1>4, <1>5, <1>6, <1>7, <1>9, Ended DEF Progress, TypeOK
<1>10. CASE Begin("ghcomponentize", "build", NoVersion, bundles)
  <2>1. bundles' = bundles
    BY <1>2 DEF sources
  <2>2. RunningOK' /\ Unfinished'
    BY <1>10, <2>1, Begun
  <2>3. tool' = "ghcomponentize" /\ todo' = bundles
    BY <1>10 DEF Begin
  <2>4. Building'
    BY <1>6, <2>1, <2>3 DEF Building, BuiltFromSources
  <2>5. Versionizing' /\ Stamping' /\ Packing'
    BY <2>3 DEF Versionizing, Stamping, Packing
  <2>. QED
    BY <1>3, <1>4, <1>5, <1>6, <1>7, <2>2, <2>4, <2>5 DEF Progress, TypeOK
<1>. QED
  BY <1>8, <1>9, <1>10

LEMMA GhcomponentizeSteps ==
    ASSUME Progress, CreateGhuserComponent, Counted("ghcomponentize")
    PROVE  Progress'
<1>1. TypeOK /\ ManifestReadable /\ Released /\ Building /\ Unfinished
  BY DEF Progress
<1>2. tool = "ghcomponentize" /\ UNCHANGED <<versionFiles, sources, targetDir, yak>>
  BY DEF CreateGhuserComponent, At
<1>3. PICK c \in todo :
         \/ End("failed") /\ ghuser' = ghuser
         \/ /\ ghuser' = [ghuser EXCEPT ![c] = Compiled(c)]
            /\ \/ todo = {c} /\ End("ok")
               \/ todo' = todo \ {c} /\ UNCHANGED <<tool, step, version, outcome>>
  BY DEF CreateGhuserComponent
<1>4. release <= 2 /\ BuiltFromSources(bundles \ todo) /\ outcome = ""
  BY <1>1, <1>2 DEF Building, Unfinished
<1>5. c \in bundles /\ bundles \subseteq Components /\ DOMAIN ghuser = Components
  BY <1>1 DEF TypeOK, SourcesOK, RunningOK, ProductsOK
<1>6. UNCHANGED <<manifest, setup, init, cmake, bundles, code, metadata>>
  BY <1>2 DEF versionFiles, sources
<1>7. VersionFilesOK' /\ ManifestReadable'
  BY <1>1, <1>6 DEF TypeOK, VersionFilesOK, ManifestReadable
<1>8. SourcesOK'
  BY <1>1, <1>6 DEF TypeOK, SourcesOK
<1>9. ProductsOK'
  <2>1. DOMAIN ghuser' = Components
    BY <1>3, <1>5
  <2>. QED
    BY <1>1, <1>2, <2>1 DEF TypeOK, ProductsOK
<1>10. /\ ReleaseOK' /\ startedBy' = startedBy
       /\ \/ release' = release
          \/ (release = 2 /\ release' = 3 /\ outcome' = "ok")
  <2>1. Order["ghcomponentize"] = 3
    BY DEF Order
  <2>2. /\ ReleaseOK' /\ startedBy' = startedBy
        /\ \/ release' = release
           \/ (release = Order["ghcomponentize"] - 1 /\ release' = Order["ghcomponentize"] /\ outcome' = "ok")
    BY <1>1, CountedRaises DEF TypeOK
  <2>. QED
    BY <2>1, <2>2
<1>11. ASSUME release' = release PROVE Released'
  <2>1. release' \in 0 .. release /\ release' <= 2
    <3>1. release \in 0 .. 4
      BY <1>1 DEF TypeOK, ReleaseOK
    <3>2. release <= 2
      BY <1>4
    <3>. QED
      BY <1>11, <3>1, <3>2
  <2>. QED
    BY <1>1, <1>6, <2>1, Kept DEF TypeOK
<1>12. \A b \in Components : Compiled(b)' = Compiled(b)
  BY <1>6 DEF Compiled
<1>13. ASSUME ghuser' = [ghuser EXCEPT ![c] = Compiled(c)]
       PROVE  \A b \in (bundles \ todo) \cup {c} : ghuser'[b] = Compiled(b)'
  <2>1. ghuser'[c] = Compiled(c) /\ \A b \in Components \ {c} : ghuser'[b] = ghuser[b]
    BY <1>5, <1>13
  <2>. QED
    BY <1>4, <1>5, <1>12, <2>1 DEF BuiltFromSources
<1>14. CASE End("failed") /\ ghuser' = ghuser
  <2>1. release' = release
    BY <1>10, <1>14 DEF End
  <2>. QED
    BY <1>7, <1>8, <1>9, <1>10, <1>11, <1>14, <2>1, Ended DEF Progress, TypeOK
<1>15. CASE ghuser' = [ghuser EXCEPT ![c] = Compiled(c)] /\ todo = {c} /\ End("ok")
  <2>1. BuiltFromSources(bundles)'
    BY <1>6, <1>13, <1>15 DEF BuiltFromSources
  <2>2. Released'
    <3>1. CASE release' = release
      BY <3>1, <1>11
    <3>2. CASE release = 2 /\ release' = 3
      <4>1. VersionsAgree'
        BY <1>1, <1>6, <3>2 DEF Released, VersionsAgree
      <4>2. StampedWith(manifest.version, bundles)'
        BY <1>1, <1>6, <3>2 DEF Released, StampedWith
      <4>. QED
        BY <2>1, <3>2, <4>1, <4>2 DEF Released
    <3>. QED
      BY <1>10, <3>1, <3>2
  <2>. QED
    BY <1>7, <1>8, <1>9, <1>10, <1>15, <2>2, Ended DEF Progress, TypeOK
<1>16. CASE /\ ghuser' = [ghuser EXCEPT ![c] = Compiled(c)]
            /\ todo' = todo \ {c} /\ UNCHANGED <<tool, step, version, outcome>>
  <2>1. release' = release
    BY <1>4, <1>10, <1>16
  <2>2. RunningOK' /\ Unfinished'
    BY <1>1, <1>6, <1>16 DEF TypeOK, RunningOK, Unfinished
  <2>3. BuiltFromSources(bundles \ todo)'
    BY <1>6, <1>13, <1>16 DEF BuiltFromSources
  <2>4. Building'
    BY <1>4, <2>1, <2>3 DEF Building
  <2>5. Versionizing' /\ Stamping' /\ Packing'
    BY <1>2, <1>16 DEF Versionizing, Stamping, Packing
  <2>. QED
    BY <1>7, <1>8, <1>9, <1>10, <1>11, <2>1, <2>2, <2>4, <2>5 DEF Progress, TypeOK
<1>. QED
  BY <1>3, <1>14, <1>15, <1>16

LEMMA GhcomponentizeInterrupted ==
    ASSUME Progress, GhcomponentizeKilled, Intervene, UNCHANGED <<release, startedBy>>
    PROVE  Progress'
<1>1. TypeOK /\ ManifestReadable /\ Released /\ Building
  BY DEF Progress
<1>2. release <= 2
  BY <1>1 DEF GhcomponentizeKilled, Building
<1>3. UNCHANGED <<versionFiles, sources, targetDir, yak>> /\ End("failed")
  BY DEF GhcomponentizeKilled
<1>4. UNCHANGED <<manifest, setup, init, cmake, bundles, code, metadata>>
  BY <1>3 DEF versionFiles, sources
<1>5. ReleaseOK'
  BY <1>1 DEF TypeOK, ReleaseOK, Intervene
<1>6. Released'
  <2>1. release' \in 0 .. release /\ release' <= 2
    BY <1>1, <1>2 DEF TypeOK, ReleaseOK
  <2>. QED
    BY <1>1, <1>4, <2>1, Kept DEF TypeOK
<1>7. SourcesOK'
  BY <1>1, <1>4 DEF TypeOK, SourcesOK
<1>8. VersionFilesOK' /\ ManifestReadable'
  BY <1>1, <1>4 DEF TypeOK, VersionFilesOK, ManifestReadable
<1>9. ProductsOK'
  <2>1. ghuser' = ghuser \/ \E c \in todo : ghuser' = [ghuser EXCEPT ![c] = Torn]
    BY DEF GhcomponentizeKilled
  <2>. QED
    BY <1>1, <1>3, <2>1 DEF TypeOK, ProductsOK
<1>. QED
  BY <1>3, <1>5, <1>6, <1>7, <1>8, <1>9, Ended DEF Progress, TypeOK

-----------------------------------------------------------------------------
(* yakerize and pypireize.                                                 *)

LEMMA YakerizeStarts ==
    ASSUME Progress, Yakerize, Started("yakerize", "task")
    PROVE  Progress'
<1>1. TypeOK /\ ManifestReadable /\ Released
  BY DEF Progress
<1>2. UNCHANGED <<versionFiles, sources, products>>
  BY DEF Yakerize
<1>3. VersionFilesOK' /\ SourcesOK' /\ ProductsOK' /\ ManifestReadable'
  BY <1>1, <1>2, FilesKept
<1>4. ReleaseOK' /\ release' \in 0 .. release /\ release' <= 3
  <2>1. Order["yakerize"] - 1 = 3
    BY DEF Order
  <2>. QED
    BY <1>1, <2>1, StartLowers DEF TypeOK
<1>5. Released'
  BY <1>1, <1>2, <1>4, Kept DEF TypeOK, versionFiles, sources, products
<1>6. CASE End("failed")
  BY <1>3, <1>4, <1>5, <1>6, Ended DEF Progress, TypeOK
<1>7. CASE Begin("yakerize", "check", NoVersion, {})
  <2>1. bundles' = bundles
    BY <1>2 DEF sources
  <2>2. RunningOK' /\ Unfinished'
    BY <1>7, <2>1, Begun
  <2>3. tool' = "yakerize" /\ step' = "check"
    BY <1>7 DEF Begin
  <2>4. Versionizing' /\ Stamping' /\ Building' /\ Packing'
    BY <1>4, <2>3 DEF Versionizing, Stamping, Building, Packing
  <2>. QED
    BY <1>3, <1>4, <1>5, <2>2, <2>4 DEF Progress, TypeOK
<1>. QED
  BY <1>6, <1>7 DEF Yakerize

\* The three steps of yakerize: it goes on, having cleaned the directory before it
\* builds; it fails; or it has built a package of what is there.
LEMMA YakerizeCases ==
    ASSUME Progress, YakerizeStep
    PROVE  /\ tool = "yakerize" /\ outcome = "" /\ release <= 3
           /\ UNCHANGED <<versionFiles, sources, targetDir, ghuser>>
           /\ yak' \in {yak, NoYak, YakOf(manifest.version, ghuser)}
           /\ \/ Goto("copy")
              \/ Goto("build") /\ yak' = NoYak
              \/ End("failed")
              \/ End("ok") /\ yak' = YakOf(manifest.version, ghuser)
<1>1. Packing /\ Unfinished
  BY DEF Progress
<1>2. tool = "yakerize"
  BY DEF YakerizeStep, CheckAndClean, CopyFiles, BuildYak, At
<1>3. outcome = "" /\ release <= 3
  BY <1>1, <1>2 DEF Packing, Unfinished
<1>4. CASE CheckAndClean
  BY <1>2, <1>3, <1>4 DEF CheckAndClean, Cleaned
<1>5. CASE CopyFiles
  BY <1>2, <1>3, <1>5 DEF CopyFiles, Cleaned
<1>6. CASE BuildYak
  <2>1. yak = NoYak
    BY <1>1, <1>2, <1>6 DEF BuildYak, At, Packing
  <2>2. ~NoYak.exists /\ YakOf(manifest.version, ghuser).exists
    BY DEF NoYak, YakOf
  <2>3. \/ yak' = NoYak /\ End("failed")
        \/ yak' = YakOf(manifest.version, ghuser) /\ End("ok")
    BY <1>6, <2>1, <2>2 DEF BuildYak
  <2>. QED
    BY <1>2, <1>3, <1>6, <2>1, <2>3 DEF BuildYak
<1>. QED
  BY <1>4, <1>5, <1>6 DEF YakerizeStep

LEMMA YakerizeSteps ==
    ASSUME Progress, YakerizeStep, Counted("yakerize")
    PROVE  Progress'
<1>1. TypeOK /\ ManifestReadable /\ Released
  BY DEF Progress
<1>2. /\ tool = "yakerize" /\ outcome = ""
      /\ UNCHANGED <<versionFiles, sources, targetDir, ghuser>>
      /\ yak' \in {yak, NoYak, YakOf(manifest.version, ghuser)}
      /\ \/ Goto("copy")
         \/ Goto("build") /\ yak' = NoYak
         \/ End("failed")
         \/ End("ok") /\ yak' = YakOf(manifest.version, ghuser)
  BY YakerizeCases
<1>3. release <= 3
  BY YakerizeCases
<1>4. UNCHANGED <<manifest, setup, init, cmake, bundles, code, metadata>>
  BY <1>2 DEF versionFiles, sources
<1>5. VersionFilesOK' /\ ManifestReadable'
  BY <1>1, <1>4 DEF TypeOK, VersionFilesOK, ManifestReadable
<1>6. SourcesOK'
  BY <1>1, <1>4 DEF TypeOK, SourcesOK
<1>7. ProductsOK'
  <2>1. DOMAIN NoYak.contents = Components /\ YakOf(manifest.version, ghuser).contents = ghuser
    BY DEF NoYak, YakOf
  <2>. QED
    BY <1>1, <1>2, <2>1 DEF TypeOK, ProductsOK
<1>8. ReleaseOK' /\ (release' = release \/ (release = 3 /\ release' = 4 /\ outcome' = "ok"))
  <2>1. Order["yakerize"] = 4
    BY DEF Order
  <2>2. /\ ReleaseOK'
        /\ \/ release' = release
           \/ (release = Order["yakerize"] - 1 /\ release' = Order["yakerize"] /\ outcome' = "ok")
    BY <1>1, CountedRaises DEF TypeOK
  <2>. QED
    BY <2>1, <2>2
<1>9. ASSUME release' = release PROVE Released'
  <2>1. release' \in 0 .. release /\ release' <= 3
    <3>1. release \in 0 .. 4
      BY <1>1 DEF TypeOK, ReleaseOK
    <3>. QED
      BY <1>3, <1>9, <3>1
  <2>2. UNCHANGED <<ghuser, metadata, bundles>>
    BY <1>2, <1>4
  <2>. QED
    BY <1>1, <1>4, <2>1, <2>2, Kept DEF TypeOK
<1>10. ASSUME NEW next \in {"copy", "build"}, Goto(next), next = "build" => yak' = NoYak
       PROVE  Progress'
  <2>1. step' = next /\ UNCHANGED <<tool, version, todo, outcome>>
    BY <1>10 DEF Goto
  <2>2. release' = release
    BY <1>2, <1>8, <2>1
  <2>3. RunningOK' /\ Unfinished'
    BY <1>1, <1>4, <2>1, <1>2 DEF TypeOK, RunningOK, Unfinished
  <2>4. Versionizing' /\ Stamping' /\ Building' /\ Packing'
    BY <1>2, <1>3, <1>10, <2>1, <2>2 DEF Versionizing, Stamping, Building, Packing
  <2>. QED
    BY <1>5, <1>6, <1>7, <1>8, <1>9, <2>2, <2>3, <2>4 DEF Progress, TypeOK
<1>11. CASE End("failed")
  <2>1. release' = release
    BY <1>8, <1>11 DEF End
  <2>. QED
    BY <1>5, <1>6, <1>7, <1>8, <1>9, <1>11, <2>1, Ended DEF Progress, TypeOK
<1>12. CASE End("ok") /\ yak' = YakOf(manifest.version, ghuser)
  <2>1. Released'
    <3>1. CASE release' = release
      BY <3>1, <1>9
    <3>2. CASE release = 3 /\ release' = 4
      <4>1. VersionsAgree'
        BY <1>1, <1>4, <3>2 DEF Released, VersionsAgree
      <4>2. StampedWith(manifest.version, bundles)'
        BY <1>1, <1>4, <3>2 DEF Released, StampedWith
      <4>3. BuiltFromSources(bundles)'
        <5>1. BuiltFromSources(bundles)
          BY <1>1, <3>2 DEF Released
        <5>2. ghuser' = ghuser
          BY <1>2
        <5>. QED
          BY <1>4, <5>1, <5>2 DEF BuiltFromSources, Compiled
      <4>4. PackedAsBuilt'
        <5>1. yak'.exists /\ yak'.version = manifest.version /\ yak'.contents = ghuser
          BY <1>12 DEF YakOf
        <5>. QED
          BY <1>2, <1>4, <5>1 DEF PackedAsBuilt
      <4>. QED
        BY <3>2, <4>1, <4>2, <4>3, <4>4 DEF Released
    <3>. QED
      BY <1>8, <3>1, <3>2
  <2>. QED
    BY <1>5, <1>6, <1>7, <1>8, <1>12, <2>1, Ended DEF Progress, TypeOK
<1>. QED
  BY <1>2, <1>10, <1>11, <1>12

LEMMA YakerizeInterrupted ==
    ASSUME Progress, YakerizeKilled, Intervene, UNCHANGED <<release, startedBy>>
    PROVE  Progress'
<1>1. TypeOK /\ ManifestReadable /\ Released /\ Packing
  BY DEF Progress
<1>2. release <= 3
  BY <1>1 DEF YakerizeKilled, Packing
<1>3. UNCHANGED <<versionFiles, sources, targetDir, ghuser>> /\ yak' \in {yak, NoYak} /\ End("failed")
  BY DEF YakerizeKilled
<1>4. UNCHANGED <<manifest, setup, init, cmake, bundles, code, metadata>>
  BY <1>3 DEF versionFiles, sources
<1>5. ReleaseOK'
  BY <1>1 DEF TypeOK, ReleaseOK, Intervene
<1>6. Released'
  <2>1. release' \in 0 .. release /\ release' <= 3
    BY <1>1, <1>2 DEF TypeOK, ReleaseOK
  <2>2. ghuser' = ghuser
    BY <1>3
  <2>. QED
    BY <1>1, <1>4, <2>1, <2>2, Kept DEF TypeOK
<1>7. SourcesOK'
  BY <1>1, <1>4 DEF TypeOK, SourcesOK
<1>8. VersionFilesOK' /\ ManifestReadable'
  BY <1>1, <1>4 DEF TypeOK, VersionFilesOK, ManifestReadable
<1>9. ProductsOK'
  BY <1>1, <1>3 DEF TypeOK, ProductsOK, NoYak
<1>. QED
  BY <1>3, <1>5, <1>6, <1>7, <1>8, <1>9, Ended DEF Progress, TypeOK

LEMMA PypireizeRuns ==
    ASSUME Progress, PypireizeTask
    PROVE  Progress'
<1>1. TypeOK /\ ManifestReadable /\ Released
  BY DEF Progress
<1>2. UNCHANGED <<versionFiles, sources, products>> /\ UNCHANGED <<release, startedBy, interventions>>
  BY DEF PypireizeTask, Pypireize
<1>3. VersionFilesOK' /\ SourcesOK' /\ ProductsOK' /\ ManifestReadable'
  BY <1>1, <1>2, FilesKept
<1>4. ReleaseOK'
  BY <1>1, <1>2 DEF TypeOK, ReleaseOK
<1>5. release' \in 0 .. release
  BY <1>1, <1>2 DEF TypeOK, ReleaseOK
<1>6. Released'
  BY <1>1, <1>2, <1>5, Kept DEF TypeOK, versionFiles, sources, products
<1>7. \E how \in {"ok", "failed"} : End(how)
  BY DEF PypireizeTask, Pypireize
<1>. QED
  BY <1>3, <1>4, <1>6, <1>7, Ended DEF Progress, TypeOK

-----------------------------------------------------------------------------
(* The developer.                                                          *)

\* An edit between two runs puts the release back to the tasks it keeps.
LEMMA EditLowers ==
    ASSUME TypeOK, Edit(0) \/ Edit(1) \/ Edit(2)
    PROVE  /\ ReleaseOK' /\ release' \in 0 .. release
           /\ Edit(0) => release' <= 0
           /\ Edit(1) => release' <= 1
<1>1. release \in 0 .. 4
  BY DEF TypeOK, ReleaseOK
<1>2. release' \in 0 .. release
  BY <1>1 DEF Edit, AtMost
<1>3. Edit(0) => release' <= 0
  BY <1>1 DEF Edit, AtMost
<1>4. Edit(1) => release' <= 1
  BY <1>1 DEF Edit, AtMost
<1>5. startedBy' = startedBy /\ interventions' \in Nat
  BY DEF Edit, Intervene, TypeOK, ReleaseOK
<1>6. ReleaseOK'
  BY <1>1, <1>2, <1>5 DEF TypeOK, ReleaseOK
<1>. QED
  BY <1>2, <1>3, <1>4, <1>6

LEMMA EditLowersToTwo ==
    ASSUME TypeOK, Edit(2)
    PROVE  release' <= 2
<1>1. release \in 0 .. 4
  BY DEF TypeOK, ReleaseOK
<1>. QED
  BY <1>1 DEF Edit, AtMost

LEMMA EditsBetweenRuns ==
    ASSUME Edit(0) \/ Edit(1) \/ Edit(2)
    PROVE  tool = "" /\ UNCHANGED <<tool, step, version, todo, outcome>>
  BY DEF Edit, Idle, running

\* No tool is running, and none starts.
LEMMA StillIdle ==
    ASSUME tool = "", UNCHANGED <<tool, todo>>, Unfinished
    PROVE  Unfinished' /\ Versionizing' /\ Stamping' /\ Building' /\ Packing'
  BY DEF Unfinished, Versionizing, Stamping, Building, Packing

\* An edit that leaves the bundles alone leaves the state of the tool its type.
LEMMA RunningKept ==
    ASSUME TypeOK, UNCHANGED <<tool, step, version, todo, outcome, bundles>>
    PROVE  RunningOK'
  BY DEF TypeOK, RunningOK

LEMMA ManifestEdited ==
    ASSUME Progress, EditManifest
    PROVE  Progress'
<1>1. TypeOK /\ ManifestReadable /\ Released
  BY DEF Progress
<1>2. Edit(0) /\ UNCHANGED <<setup, init, cmake, sources, products>>
  BY DEF EditManifest
<1>3. ReleaseOK' /\ release' \in 0 .. release /\ release' <= 0
  BY <1>1, <1>2, EditLowers
<1>11. tool = "" /\ UNCHANGED <<tool, step, version, todo, outcome>>
  BY <1>2, EditsBetweenRuns
<1>4. PICK v \in Versions : WellFormed(v) /\ manifest' = File(v)
  BY DEF EditManifest
<1>5. VersionFilesOK' /\ ManifestReadable'
  BY <1>1, <1>2, <1>4, FileType DEF TypeOK, VersionFilesOK, ManifestReadable
<1>6. SourcesOK' /\ ProductsOK' /\ bundles' = bundles
  BY <1>1, <1>2 DEF TypeOK, SourcesOK, ProductsOK, sources, products
<1>7. Released'
  BY <1>1, <1>3, Kept DEF TypeOK
<1>8. RunningOK'
  BY <1>1, <1>6, <1>11, RunningKept
<1>9. Unfinished' /\ Versionizing' /\ Stamping' /\ Building' /\ Packing'
  BY <1>11, StillIdle DEF Progress
<1>. QED
  BY <1>3, <1>5, <1>6, <1>7, <1>8, <1>9 DEF Progress, TypeOK

LEMMA CodeEdited ==
    ASSUME Progress, EditCode
    PROVE  Progress'
<1>1. TypeOK /\ ManifestReadable /\ Released
  BY DEF Progress
<1>2. Edit(1) /\ UNCHANGED <<versionFiles, bundles, metadata, products>>
  BY DEF EditCode
<1>3. ReleaseOK' /\ release' \in 0 .. release /\ release' <= 1
  BY <1>1, <1>2, EditLowers
<1>11. tool = "" /\ UNCHANGED <<tool, step, version, todo, outcome>>
  BY <1>2, EditsBetweenRuns
<1>4. UNCHANGED <<manifest, setup, init, cmake>>
  BY <1>2 DEF versionFiles
<1>5. VersionFilesOK' /\ ManifestReadable'
  BY <1>1, <1>4 DEF TypeOK, VersionFilesOK, ManifestReadable
<1>6. SourcesOK'
  <2>1. code \in [Components -> CodeFile] /\ bundles \subseteq Components
    BY <1>1 DEF TypeOK, SourcesOK
  <2>2. PICK c \in bundles : \/ code' = [code EXCEPT ![c].text = @ + 1]
                             \/ code' = [code EXCEPT ![c].head = {}, ![c].deep = @ \cup code[c].head]
    BY DEF EditCode
  <2>3. code[c] \in CodeFile /\ c \in Components
    BY <2>1
  <2>4. ASSUME code' = [code EXCEPT ![c].text = @ + 1] PROVE code' \in [Components -> CodeFile]
    <3>1. [code[c] EXCEPT !.text = @ + 1] \in CodeFile
      BY <2>3 DEF CodeFile
    <3>. QED
      BY <2>1, <2>3, <2>4, <3>1
  <2>5. ASSUME code' = [code EXCEPT ![c].head = {}, ![c].deep = @ \cup code[c].head]
        PROVE  code' \in [Components -> CodeFile]
    <3>1. [code[c] EXCEPT !.head = {}, !.deep = @ \cup code[c].head] \in CodeFile
      BY <2>3 DEF CodeFile
    <3>. QED
      BY <2>1, <2>3, <2>5, <3>1
  <2>. QED
    BY <1>1, <1>2, <2>2, <2>4, <2>5 DEF TypeOK, SourcesOK
<1>7. ProductsOK'
  BY <1>1, <1>2 DEF TypeOK, ProductsOK, products
<1>8. Released'
  BY <1>1, <1>3, <1>4, Kept DEF TypeOK
<1>9. RunningOK'
  BY <1>1, <1>2, <1>11, RunningKept
<1>10. Unfinished' /\ Versionizing' /\ Stamping' /\ Building' /\ Packing'
  BY <1>11, StillIdle DEF Progress
<1>. QED
  BY <1>3, <1>5, <1>6, <1>7, <1>8, <1>9, <1>10 DEF Progress, TypeOK

LEMMA MetadataEdited ==
    ASSUME Progress, EditMetadata
    PROVE  Progress'
<1>1. TypeOK /\ ManifestReadable /\ Released
  BY DEF Progress
<1>2. Edit(2) /\ UNCHANGED <<versionFiles, bundles, code, products>>
  BY DEF EditMetadata
<1>3. ReleaseOK' /\ release' \in 0 .. release /\ release' <= 2
  BY <1>1, <1>2, EditLowers, EditLowersToTwo
<1>11. tool = "" /\ UNCHANGED <<tool, step, version, todo, outcome>>
  BY <1>2, EditsBetweenRuns
<1>4. UNCHANGED <<manifest, setup, init, cmake>>
  BY <1>2 DEF versionFiles
<1>5. VersionFilesOK' /\ ManifestReadable'
  BY <1>1, <1>4 DEF TypeOK, VersionFilesOK, ManifestReadable
<1>6. SourcesOK'
  BY <1>1, <1>2 DEF EditMetadata, TypeOK, SourcesOK
<1>7. ProductsOK'
  BY <1>1, <1>2 DEF TypeOK, ProductsOK, products
<1>8. Released'
  BY <1>1, <1>2, <1>3, <1>4, Kept DEF TypeOK
<1>9. RunningOK'
  BY <1>1, <1>2, <1>11, RunningKept
<1>10. Unfinished' /\ Versionizing' /\ Stamping' /\ Building' /\ Packing'
  BY <1>11, StillIdle DEF Progress
<1>. QED
  BY <1>3, <1>5, <1>6, <1>7, <1>8, <1>9, <1>10 DEF Progress, TypeOK

LEMMA BundleRemoved ==
    ASSUME Progress, RemoveBundle
    PROVE  Progress'
<1>1. TypeOK /\ ManifestReadable /\ Released
  BY DEF Progress
<1>2. Edit(2) /\ UNCHANGED <<versionFiles, code, metadata, products>> /\ bundles' \subseteq bundles
  BY DEF RemoveBundle
<1>3. ReleaseOK' /\ release' \in 0 .. release /\ release' <= 2
  BY <1>1, <1>2, EditLowers, EditLowersToTwo
<1>11. tool = "" /\ UNCHANGED <<tool, step, version, todo, outcome>>
  BY <1>2, EditsBetweenRuns
<1>4. UNCHANGED <<manifest, setup, init, cmake>>
  BY <1>2 DEF versionFiles
<1>5. VersionFilesOK' /\ ManifestReadable'
  BY <1>1, <1>4 DEF TypeOK, VersionFilesOK, ManifestReadable
<1>6. SourcesOK'
  BY <1>1, <1>2 DEF TypeOK, SourcesOK
<1>7. ProductsOK'
  BY <1>1, <1>2 DEF TypeOK, ProductsOK, products
<1>8. Released'
  BY <1>1, <1>2, <1>3, <1>4, Kept DEF TypeOK
<1>9. RunningOK'
  BY <1>1, <1>11 DEF Progress, Unfinished, TypeOK, RunningOK
<1>10. Unfinished' /\ Versionizing' /\ Stamping' /\ Building' /\ Packing'
  BY <1>11, StillIdle DEF Progress
<1>. QED
  BY <1>3, <1>5, <1>6, <1>7, <1>8, <1>9, <1>10 DEF Progress, TypeOK

LEMMA BuildRemoved ==
    ASSUME Progress, RemoveBuild
    PROVE  Progress'
<1>1. TypeOK /\ ManifestReadable /\ Released
  BY DEF Progress
<1>2. Edit(2) /\ UNCHANGED <<versionFiles, sources>> /\ yak' \in {yak, NoYak}
  BY DEF RemoveBuild
<1>3. ReleaseOK' /\ release' \in 0 .. release /\ release' <= 2
  BY <1>1, <1>2, EditLowers, EditLowersToTwo
<1>11. tool = "" /\ UNCHANGED <<tool, step, version, todo, outcome>>
  BY <1>2, EditsBetweenRuns
<1>4. UNCHANGED <<manifest, setup, init, cmake, bundles, code, metadata>>
  BY <1>2 DEF versionFiles, sources
<1>5. VersionFilesOK' /\ ManifestReadable'
  BY <1>1, <1>4 DEF TypeOK, VersionFilesOK, ManifestReadable
<1>6. SourcesOK'
  BY <1>1, <1>4 DEF TypeOK, SourcesOK
<1>7. ProductsOK'
  BY <1>1, <1>2 DEF RemoveBuild, TypeOK, ProductsOK, NoYak
<1>8. Released'
  BY <1>1, <1>3, <1>4, Kept DEF TypeOK
<1>9. RunningOK'
  BY <1>1, <1>4, <1>11, RunningKept
<1>10. Unfinished' /\ Versionizing' /\ Stamping' /\ Building' /\ Packing'
  BY <1>11, StillIdle DEF Progress
<1>. QED
  BY <1>3, <1>5, <1>6, <1>7, <1>8, <1>9, <1>10 DEF Progress, TypeOK

-----------------------------------------------------------------------------
(* The order in which versionize compares versions.                        *)

\* Every set of natural numbers that is not empty has a least one.
LEMMA LeastNat ==
    ASSUME NEW N \in SUBSET Nat, N # {}
    PROVE  \E m \in N : \A n \in N : m <= n
<1>. DEFINE Less == {ss \in Nat \X Nat : ss[1] < ss[2]}
<1>1. IsWellFoundedOn(Less, Nat)
  BY NatLessThanWellFounded DEF OpToRel
<1>2. PICK m \in N : \A n \in N : <<n, m>> \notin Less
  <2>. HIDE DEF Less
  <2>. QED
    BY <1>1, WFMin
<1>3. ASSUME NEW n \in N PROVE m <= n
  <2>1. <<n, m>> \notin Less
    BY <1>2
  <2>. QED
    BY <2>1
<1>. QED
  BY <1>3

\* A sequence is a prefix of another that has the same elements as far as it goes.
LEMMA Prefix ==
    ASSUME NEW s \in Seq(Nat), NEW t \in Seq(Nat)
    PROVE  IsPrefix(s, t) <=> Len(s) <= Len(t) /\ \A i \in 1 .. Len(s) : s[i] = t[i]
<1>. DEFINE n == Len(s)
<1>0. n \in Nat /\ Len(t) \in Nat /\ DOMAIN s = 1 .. n /\ DOMAIN t = 1 .. Len(t)
  OBVIOUS
<1>. SUFFICES ASSUME n <= Len(t)
              PROVE  SubSeq(s, 1, n) = SubSeq(t, 1, n) <=> \A i \in 1 .. n : s[i] = t[i]
  BY DEF IsPrefix
<1>1. SubSeq(s, 1, n) = [i \in 1 .. n |-> s[i]]
  BY <1>0
<1>2. SubSeq(t, 1, n) = [i \in 1 .. n |-> t[i]]
  BY <1>0
<1>. QED
  BY <1>1, <1>2

\* Two strings are equal as far as both go, or there is a first place where they differ.
LEMMA FirstDifference ==
    ASSUME NEW s \in Seq(Nat), NEW t \in Seq(Nat),
           NEW k \in DOMAIN s \cap DOMAIN t, s[k] # t[k]
    PROVE  \E i \in DOMAIN s \cap DOMAIN t : i <= k /\ s[i] # t[i] /\ \A j \in 1 .. i - 1 : s[j] = t[j]
<1>. DEFINE N == {i \in DOMAIN s \cap DOMAIN t : s[i] # t[i]}
<1>0. DOMAIN s = 1 .. Len(s) /\ DOMAIN t = 1 .. Len(t) /\ Len(s) \in Nat /\ Len(t) \in Nat
  OBVIOUS
<1>1. N \in SUBSET Nat /\ k \in N
  BY <1>0
<1>2. PICK i \in N : \A n \in N : i <= n
  <2>. HIDE DEF N
  <2>. QED
    BY <1>1, LeastNat
<1>3. ASSUME NEW j \in 1 .. i - 1 PROVE s[j] = t[j]
  <2>1. j \in DOMAIN s \cap DOMAIN t /\ ~(i <= j)
    BY <1>0, <1>2
  <2>. QED
    BY <1>2, <2>1
<1>. QED
  BY <1>1, <1>2, <1>3

LEMMA LeqReflexive ==
    ASSUME NEW s \in Seq(Nat) PROVE StringLeq(s, s)
  BY Prefix DEF StringLeq

LEMMA LeqTotal ==
    ASSUME NEW s \in Seq(Nat), NEW t \in Seq(Nat)
    PROVE  StringLeq(s, t) \/ StringLeq(t, s)
<1>0. DOMAIN s = 1 .. Len(s) /\ DOMAIN t = 1 .. Len(t) /\ Len(s) \in Nat /\ Len(t) \in Nat
  OBVIOUS
<1>1. CASE \E k \in DOMAIN s \cap DOMAIN t : s[k] # t[k]
  <2>1. PICK i \in DOMAIN s \cap DOMAIN t : s[i] # t[i] /\ \A j \in 1 .. i - 1 : s[j] = t[j]
    BY <1>1, FirstDifference
  <2>2. s[i] \in Nat /\ t[i] \in Nat
    OBVIOUS
  <2>3. s[i] < t[i] \/ t[i] < s[i]
    BY <2>1, <2>2
  <2>. QED
    BY <2>1, <2>3 DEF StringLeq
<1>2. CASE \A k \in DOMAIN s \cap DOMAIN t : s[k] = t[k]
  <2>1. CASE Len(s) <= Len(t)
    <3>0. \A k \in 1 .. Len(s) : k \in DOMAIN s \cap DOMAIN t
      BY <1>0, <2>1
    <3>1. \A k \in 1 .. Len(s) : s[k] = t[k]
      BY <1>2, <3>0
    <3>2. IsPrefix(s, t)
      BY <3>1, <2>1, Prefix
    <3>. QED
      BY <3>2 DEF StringLeq
  <2>2. CASE Len(t) <= Len(s)
    <3>0. \A k \in 1 .. Len(t) : k \in DOMAIN s \cap DOMAIN t
      BY <1>0, <2>2
    <3>1. \A k \in 1 .. Len(t) : t[k] = s[k]
      BY <1>2, <3>0
    <3>2. IsPrefix(t, s)
      BY <3>1, <2>2, Prefix
    <3>. QED
      BY <3>2 DEF StringLeq
  <2>. QED
    BY <1>0, <2>1, <2>2
<1>. QED
  BY <1>1, <1>2

\* t and u may differ before or after the place where s and t do.
LEMMA LeqTransitive ==
    ASSUME NEW s \in Seq(Nat), NEW t \in Seq(Nat), NEW u \in Seq(Nat),
           StringLeq(s, t), StringLeq(t, u)
    PROVE  StringLeq(s, u)
<1>. DEFINE Before(x, y, i) == i \in DOMAIN x \cap DOMAIN y /\ x[i] < y[i] /\ \A j \in 1 .. i - 1 : x[j] = y[j]
<1>0. /\ DOMAIN s = 1 .. Len(s) /\ DOMAIN t = 1 .. Len(t) /\ DOMAIN u = 1 .. Len(u)
      /\ Len(s) \in Nat /\ Len(t) \in Nat /\ Len(u) \in Nat
  OBVIOUS
<1>1. (\E i \in Nat : Before(s, u, i)) => StringLeq(s, u)
  BY DEF StringLeq
<1>2. ASSUME NEW x \in Seq(Nat), NEW y \in Seq(Nat), StringLeq(x, y)
      PROVE  IsPrefix(x, y) \/ \E i \in Nat : Before(x, y, i)
  <2>1. ASSUME NEW i \in DOMAIN x \cap DOMAIN y, x[i] < y[i], \A j \in 1 .. i - 1 : x[j] = y[j]
        PROVE  \E k \in Nat : Before(x, y, k)
    <3>1. i \in Nat /\ Before(x, y, i)
      BY <2>1
    <3>. QED
      BY <3>1
  <2>. HIDE DEF Before
  <2>. QED
    BY <1>2, <2>1 DEF StringLeq
<1>3. (IsPrefix(s, t) \/ \E i \in Nat : Before(s, t, i)) /\ (IsPrefix(t, u) \/ \E i \in Nat : Before(t, u, i))
  <2>. HIDE DEF Before
  <2>. QED
    BY <1>2
<1>4. CASE IsPrefix(s, t) /\ IsPrefix(t, u)
  <2>1. Len(s) <= Len(t) /\ \A i \in 1 .. Len(s) : s[i] = t[i]
    BY <1>4, Prefix
  <2>2. Len(t) <= Len(u) /\ \A i \in 1 .. Len(t) : t[i] = u[i]
    BY <1>4, Prefix
  <2>3. Len(s) <= Len(u) /\ \A i \in 1 .. Len(s) : s[i] = u[i]
    BY <1>0, <2>1, <2>2
  <2>4. IsPrefix(s, u)
    BY <2>3, Prefix
  <2>. QED
    BY <2>4 DEF StringLeq
<1>5. ASSUME NEW i \in Nat, IsPrefix(s, t), Before(t, u, i) PROVE StringLeq(s, u)
  <2>1. Len(s) <= Len(t) /\ \A j \in 1 .. Len(s) : s[j] = t[j]
    BY <1>5, Prefix
  <2>2. CASE i <= Len(s)
    <3>1. i \in DOMAIN s \cap DOMAIN u /\ s[i] < u[i]
      BY <1>0, <1>5, <2>1, <2>2
    <3>2. \A j \in 1 .. i - 1 : s[j] = u[j]
      BY <1>0, <1>5, <2>1, <2>2
    <3>. QED
      BY <3>1, <3>2, <1>1
  <2>3. CASE Len(s) < i
    <3>1. Len(s) <= Len(u) /\ \A j \in 1 .. Len(s) : s[j] = u[j]
      BY <1>0, <1>5, <2>1, <2>3
    <3>2. IsPrefix(s, u)
      BY <3>1, Prefix
    <3>. QED
      BY <3>2 DEF StringLeq
  <2>. QED
    BY <1>0, <2>2, <2>3
<1>6. ASSUME NEW i \in Nat, Before(s, t, i), IsPrefix(t, u) PROVE StringLeq(s, u)
  <2>1. Len(t) <= Len(u) /\ \A j \in 1 .. Len(t) : t[j] = u[j]
    BY <1>6, Prefix
  <2>2. i \in DOMAIN s \cap DOMAIN u /\ s[i] < u[i]
    BY <1>0, <1>6, <2>1
  <2>3. \A j \in 1 .. i - 1 : s[j] = u[j]
    BY <1>0, <1>6, <2>1
  <2>. QED
    BY <2>2, <2>3, <1>1
<1>7. ASSUME NEW i \in Nat, NEW k \in Nat, Before(s, t, i), Before(t, u, k) PROVE StringLeq(s, u)
  <2>. DEFINE m == IF i <= k THEN i ELSE k
  <2>1. m \in DOMAIN s \cap DOMAIN u
    BY <1>0, <1>7
  <2>2. m \in DOMAIN t
    BY <1>0, <1>7
  <2>. HIDE DEF m
  <2>6. s[m] \in Nat /\ t[m] \in Nat /\ u[m] \in Nat
    BY <2>1, <2>2
  <2>. USE DEF m
  <2>3. s[m] < u[m]
    <3>1. CASE i < k
      BY <1>0, <1>7, <2>6, <3>1
    <3>2. CASE i = k
      BY <1>0, <1>7, <2>6, <3>2
    <3>3. CASE k < i
      BY <1>0, <1>7, <2>6, <3>3
    <3>. QED
      BY <3>1, <3>2, <3>3
  <2>4. \A j \in 1 .. m - 1 : s[j] = u[j]
    BY <1>7
  <2>5. Before(s, u, m) /\ m \in Nat
    BY <2>1, <2>3, <2>4
  <2>. QED
    BY <2>5, <1>1
<1>. HIDE DEF Before
<1>. QED
  BY <1>3, <1>4, <1>5, <1>6, <1>7

\* What is compared of a version are the places of its parts.
LEMMA RankFacts ==
    /\ \A n \in 0 .. 99 : Rank(n) \in Nat
    /\ \A m, n \in 0 .. 9 : (Rank(m) < Rank(n) => m < n) /\ (Rank(m) = Rank(n) => m = n)
<1>1. ASSUME NEW n \in 0 .. 99 PROVE Rank(n) \in Nat
  <2>1. n \div 10 \in Nat /\ n % 10 \in Nat
    OBVIOUS
  <2>. QED
    BY <2>1 DEF Rank
<1>2. \A m, n \in 0 .. 9 : (Rank(m) < Rank(n) => m < n) /\ (Rank(m) = Rank(n) => m = n)
  BY DEF Rank
<1>. QED
  BY <1>1, <1>2

LEMMA Elements ==
    ASSUME NEW D, NEW s \in Seq(D)
    PROVE  DOMAIN s = 1 .. Len(s) /\ Len(s) \in Nat /\ \A i \in 1 .. Len(s) : s[i] \in D
  OBVIOUS

LEMMA TextFacts ==
    ASSUME PipelineAssumption, NEW v \in Versions \cup {NoVersion}
    PROVE  /\ v \in Seq(0 .. 99) /\ Text(v) \in Seq(Nat) /\ Len(Text(v)) = Len(v)
           /\ \A i \in 1 .. Len(v) : Text(v)[i] = Rank(v[i])
<1>1. v \in Seq(0 .. 99)
  <2>1. <<>> \in Seq(0 .. 99)
    OBVIOUS
  <2>. QED
    BY <2>1 DEF PipelineAssumption, NoVersion
<1>2. DOMAIN v = 1 .. Len(v) /\ Len(v) \in Nat /\ \A i \in 1 .. Len(v) : v[i] \in 0 .. 99
  BY <1>1, Elements
<1>3. Text(v) = [i \in 1 .. Len(v) |-> Rank(v[i])]
  BY <1>2 DEF Text
<1>4. \A i \in 1 .. Len(v) : Rank(v[i]) \in Nat
  BY <1>2, RankFacts
<1>5. Text(v) \in Seq(Nat) /\ Len(Text(v)) = Len(v)
  BY <1>2, <1>3, <1>4
<1>. QED
  BY <1>1, <1>3, <1>5

\* A version that is not at most another is after it.
LEMMA VersionsTotal ==
    ASSUME PipelineAssumption, NEW v \in Versions \cup {NoVersion}, NEW w \in Versions \cup {NoVersion},
           ~StringLeq(Text(v), Text(w))
    PROVE  StringLeq(Text(w), Text(v))
  BY TextFacts, LeqTotal

\* Between versions of three parts below ten, the order of the strings is that of the
\* versions.
LEMMA GreaterIsLater ==
    ASSUME PipelineAssumption, NEW v \in Versions, NEW w \in Versions,
           WellFormed(v), WellFormed(w), OneDigit(v), OneDigit(w), ~StringLeq(Text(v), Text(w))
    PROVE  Smaller(w, v)
<1>. DEFINE s == Text(w)
            t == Text(v)
<1>1. /\ s \in Seq(Nat) /\ Len(s) = 3 /\ \A i \in 1 .. 3 : s[i] = Rank(w[i])
      /\ t \in Seq(Nat) /\ Len(t) = 3 /\ \A i \in 1 .. 3 : t[i] = Rank(v[i])
  BY TextFacts DEF WellFormed
<1>2. /\ DOMAIN v = 1 .. 3 /\ DOMAIN w = 1 .. 3
      /\ \A i \in 1 .. 3 : v[i] \in 0 .. 9 /\ w[i] \in 0 .. 9
  <2>1. v \in Seq(0 .. 99) /\ w \in Seq(0 .. 99) /\ Len(v) = 3 /\ Len(w) = 3
    BY TextFacts DEF WellFormed
  <2>2. DOMAIN v = 1 .. 3 /\ DOMAIN w = 1 .. 3 /\ \A i \in 1 .. 3 : v[i] \in 0 .. 99 /\ w[i] \in 0 .. 99
    BY <2>1, Elements
  <2>3. \A i \in 1 .. 3 : v[i] < 10 /\ w[i] < 10
    BY <2>2 DEF OneDigit
  <2>4. ASSUME NEW i \in 1 .. 3 PROVE v[i] \in 0 .. 9 /\ w[i] \in 0 .. 9
    <3>1. v[i] \in 0 .. 99 /\ w[i] \in 0 .. 99 /\ v[i] < 10 /\ w[i] < 10
      BY <2>2, <2>3
    <3>2. \A n \in 0 .. 99 : n < 10 => n \in 0 .. 9
      OBVIOUS
    <3>. QED
      BY <3>1, <3>2
  <2>. QED
    BY <2>2, <2>4
<1>3. DOMAIN s = 1 .. 3 /\ DOMAIN t = 1 .. 3
  <2>. HIDE DEF s, t
  <2>. QED
    BY <1>1
<1>. HIDE DEF s, t
<1>4. StringLeq(s, t) /\ ~StringLeq(t, s)
  BY VersionsTotal DEF s, t
<1>5. ~IsPrefix(s, t)
  <2>. SUFFICES ASSUME IsPrefix(s, t) PROVE FALSE
    OBVIOUS
  <2>1. \A i \in 1 .. Len(s) : s[i] = t[i]
    BY <1>1, Prefix
  <2>2. IsPrefix(t, s)
    BY <1>1, <2>1, Prefix
  <2>. QED
    BY <1>4, <2>2 DEF StringLeq
<1>6. PICK i \in 1 .. 3 : s[i] < t[i] /\ \A j \in 1 .. i - 1 : s[j] = t[j]
  BY <1>3, <1>4, <1>5 DEF StringLeq
<1>7. w[i] < v[i]
  <2>1. w[i] \in 0 .. 9 /\ v[i] \in 0 .. 9 /\ Rank(w[i]) < Rank(v[i])
    BY <1>1, <1>2, <1>6
  <2>. QED
    BY <2>1, RankFacts
<1>8. \A j \in 1 .. i - 1 : w[j] = v[j]
  <2>. TAKE j \in 1 .. i - 1
  <2>1. j \in 1 .. 3 /\ Rank(w[j]) = Rank(v[j])
    BY <1>1, <1>6
  <2>. QED
    BY <1>2, <2>1, RankFacts
<1>. QED
  BY <1>2, <1>7, <1>8 DEF Smaller

-----------------------------------------------------------------------------
(* The order of setup.py and __init__.py.                                  *)

LEMMA InitInOrder == Init => FilesInOrder
<1>. SUFFICES ASSUME Init PROVE FilesInOrder
  OBVIOUS
<1>1. ~At("versionize", "init")
  BY DEF Init, At
<1>2. CASE \E v \in Versions : WellFormed(v) /\ setup = File(v) /\ init = File(v)
  <2>1. PICK v \in Versions : WellFormed(v) /\ setup = File(v) /\ init = File(v)
    BY <1>2
  <2>2. setup.version = v /\ init.version = v
    BY <2>1, FileType
  <2>3. StringLeq(Text(v), Text(v))
    BY TextFacts, LeqReflexive, PipelineAssumption
  <2>. QED
    BY <1>1, <2>1, <2>2, <2>3 DEF FilesInOrder, InitNotAhead
<1>3. CASE setup = File(NoVersion) /\ init = NoFile
  BY <1>1, <1>3 DEF FilesInOrder, InitNotAhead, File, NoFile
<1>. QED
  BY <1>2, <1>3 DEF Init

\* No other step than versionize's own writes these files, or brings it to __init__.py.
LEMMA OthersKeepFiles ==
    ASSUME [Next]_pipelineVars, ~VersionizeStep, ~VersionizeKilled
    PROVE  /\ UNCHANGED <<setup, init>> /\ (tool = "versionize" => manifest' = manifest)
           /\ At("versionize", "init")' => At("versionize", "init") /\ version' = version
<1>1. CASE StartTool
  <2>1. UNCHANGED versionFiles
    BY <1>1 DEF StartTool, Versionize, Flagerize, Ghcomponentize, Yakerize
  <2>2. step' \in {"", "setup", "manifest", "stamp", "build", "check"}
    BY <1>1 DEF StartTool, Versionize, Flagerize, Ghcomponentize, Yakerize, Begin, End
  <2>. QED
    BY <2>1, <2>2 DEF versionFiles, At
<1>2. CASE StampFile \/ CreateGhuserComponent \/ YakerizeStep
  <2>1. UNCHANGED versionFiles
    BY <1>2 DEF StampFile, CreateGhuserComponent, YakerizeStep, CheckAndClean, CopyFiles, BuildYak
  <2>2. tool # "versionize" /\ tool' \in {"", tool}
    BY <1>2 DEF StampFile, CreateGhuserComponent, YakerizeStep, CheckAndClean, CopyFiles, BuildYak, At, Goto, End
  <2>. QED
    BY <2>1, <2>2 DEF versionFiles, At
<1>3. CASE FlagerizeKilled \/ GhcomponentizeKilled \/ YakerizeKilled \/ PypireizeTask
  BY <1>3 DEF FlagerizeKilled, GhcomponentizeKilled, YakerizeKilled, PypireizeTask, Pypireize, End, At, versionFiles
<1>4. CASE Developer
  <2>1. UNCHANGED <<setup, init>> /\ tool = "" /\ tool' = tool
    BY <1>4 DEF Developer, EditManifest, EditCode, EditMetadata, RemoveBundle, RemoveBuild, Edit, Idle, versionFiles, running
  <2>. QED
    BY <2>1 DEF At
<1>5. CASE UNCHANGED pipelineVars
  BY <1>5 DEF pipelineVars, vars, versionFiles, running, At
<1>. QED
  BY <1>1, <1>2, <1>3, <1>4, <1>5 DEF Next, ToolStep, ToolKilled

\* A file that is rewritten gets the version read back from what was written, and the
\* string that was there is not after it.
LEMMA Rewritten ==
    ASSUME PipelineAssumption, Progress, NEW file \in VersionFile, Accepts(file)
    PROVE  /\ File(AsRead(version)).version = AsRead(version)
           /\ AsRead(version) \in {NoVersion, version}
           /\ AsRead(version) = NoVersion \/ WellFormed(AsRead(version))
           /\ StringLeq(Text(file.version), Text(version))
<1>1. version \in Versions \cup {NoVersion}
  BY DEF Progress, TypeOK, RunningOK
<1>2. file.version \in Versions \cup {NoVersion}
  BY DEF VersionFile
<1>3. StringLeq(Text(file.version), Text(version))
  BY <1>1, <1>2, VersionsTotal DEF Accepts
<1>. QED
  BY <1>3 DEF File, AsRead

LEMMA VersionizeKeepsOrder ==
    ASSUME Progress, FilesInOrder, VersionizeStep
    PROVE  FilesInOrder'
<1>0. PipelineAssumption
  BY PipelineAssumption
<1>1. setup \in VersionFile /\ init \in VersionFile
  BY DEF Progress, TypeOK, VersionFilesOK
<1>2. /\ version \in Versions \cup {NoVersion}
      /\ setup.version \in Versions \cup {NoVersion} /\ init.version \in Versions \cup {NoVersion}
  BY <1>1 DEF Progress, TypeOK, RunningOK, VersionFile
<1>3. ASSUME UNCHANGED <<setup, init>>, ~At("versionize", "init")' PROVE FilesInOrder'
  BY <1>3 DEF FilesInOrder, InitNotAhead
<1>4. CASE UpdateManifest \/ UpdateCmake
  BY <1>3, <1>4 DEF UpdateManifest, UpdateCmake, Update, Goto, End, At
<1>5. CASE UpdateSetup
  <2>1. init' = init
    BY <1>5 DEF UpdateSetup
  <2>2. CASE Accepts(setup)
    <3>1. setup' = File(AsRead(version)) /\ version' = version
      BY <1>5, <2>2 DEF UpdateSetup, Update, Goto
    <3>2. /\ setup'.version = AsRead(version) /\ AsRead(version) \in {NoVersion, version}
          /\ AsRead(version) = NoVersion \/ WellFormed(AsRead(version))
          /\ StringLeq(Text(setup.version), Text(version))
      BY <1>0, <1>1, <2>2, <3>1, Rewritten
    <3>3. init.version # NoVersion => StringLeq(Text(init.version), Text(setup.version))
      BY <2>2 DEF Accepts, FilesInOrder, InitNotAhead
    <3>4. init.version # NoVersion => StringLeq(Text(init.version), Text(version))
      <4>1. Text(init.version) \in Seq(Nat) /\ Text(setup.version) \in Seq(Nat) /\ Text(version) \in Seq(Nat)
        BY <1>0, <1>2, TextFacts
      <4>. QED
        BY <3>2, <3>3, <4>1, LeqTransitive
    <3>5. InitNotAhead'
      BY <2>1, <3>2, <3>4 DEF InitNotAhead
    <3>. QED
      BY <2>1, <3>1, <3>2, <3>5 DEF FilesInOrder
  <2>3. CASE ~Accepts(setup)
    BY <1>3, <1>5, <2>1, <2>3 DEF UpdateSetup, Update, End, At
  <2>. QED
    BY <2>2, <2>3
<1>6. CASE UpdateInit
  <2>1. setup' = setup /\ setup.version = AsRead(version)
    BY <1>6 DEF UpdateInit, Update, FilesInOrder
  <2>2. CASE Accepts(init)
    <3>1. init' = File(AsRead(version)) /\ step' = "cmake"
      BY <1>6, <2>2 DEF UpdateInit, Update, Goto
    <3>2. init'.version = AsRead(version)
      BY <1>0, <1>1, <2>2, <3>1, Rewritten
    <3>3. StringLeq(Text(setup.version), Text(setup.version))
      BY <1>0, <1>2, TextFacts, LeqReflexive
    <3>4. InitNotAhead'
      BY <2>1, <3>2, <3>3 DEF InitNotAhead
    <3>. QED
      BY <2>1, <3>1, <3>2, <3>4 DEF FilesInOrder, At
  <2>3. CASE ~Accepts(init)
    BY <1>3, <1>6, <2>1, <2>3 DEF UpdateInit, Update, End, At
  <2>. QED
    BY <2>2, <2>3
<1>. QED
  BY <1>4, <1>5, <1>6 DEF VersionizeStep

\* A file that is left empty has no version to be compared.
LEMMA InterruptionKeepsOrder ==
    ASSUME FilesInOrder, VersionizeKilled
    PROVE  FilesInOrder'
<1>1. setup' \in {setup, File(NoVersion)} /\ init' \in {init, File(NoVersion)}
  BY DEF VersionizeKilled, Emptied
<1>2. ~At("versionize", "init")'
  BY DEF VersionizeKilled, End, At
<1>3. File(NoVersion).version = NoVersion
  BY DEF File
<1>. QED
  BY <1>1, <1>2, <1>3 DEF FilesInOrder, InitNotAhead

LEMMA StepInOrder ==
    ASSUME Progress, FilesInOrder, [Next]_pipelineVars
    PROVE  FilesInOrder'
<1>1. CASE VersionizeStep
  BY <1>1, VersionizeKeepsOrder
<1>2. CASE VersionizeKilled
  BY <1>2, InterruptionKeepsOrder
<1>3. CASE ~VersionizeStep /\ ~VersionizeKilled
  <2>1. UNCHANGED <<setup, init>> /\ (At("versionize", "init")' => At("versionize", "init") /\ version' = version)
    BY <1>3, OthersKeepFiles
  <2>. QED
    BY <2>1 DEF FilesInOrder, InitNotAhead
<1>. QED
  BY <1>1, <1>2, <1>3

-----------------------------------------------------------------------------
(* The theorems.                                                           *)

\* Every step keeps the progress.
LEMMA StepInvariant ==
    ASSUME Progress, [Next]_pipelineVars
    PROVE  Progress'
<1>1. CASE StartTool
  <2>1. CASE Versionize(TRUE, NoVersion) /\ Started("versionize", "task")
    BY <2>1, VersionizeStarts
  <2>2. CASE \E v \in Versions : Versionize(FALSE, v) /\ Started("versionize", "hand")
    BY <2>2, VersionizeStarts
  <2>3. CASE Flagerize(TRUE, NoVersion) /\ Started("flagerize", "task")
    BY <2>3, FlagerizeStarts
  <2>4. CASE \E v \in Versions : Flagerize(FALSE, v) /\ Started("flagerize", "hand")
    BY <2>4, FlagerizeStarts
  <2>5. CASE \E found \in BOOLEAN : Ghcomponentize(found) /\ Started("ghcomponentize", "task")
    BY <2>5, GhcomponentizeStarts
  <2>6. CASE Yakerize /\ Started("yakerize", "task")
    BY <2>6, YakerizeStarts
  <2>. QED
    BY <1>1, <2>1, <2>2, <2>3, <2>4, <2>5, <2>6 DEF StartTool
<1>2. CASE ToolStep
  BY <1>2, VersionizeSteps, FlagerizeSteps, GhcomponentizeSteps, YakerizeSteps DEF ToolStep
<1>3. CASE ToolKilled
  BY <1>3, VersionizeInterrupted, FlagerizeInterrupted, GhcomponentizeInterrupted, YakerizeInterrupted DEF ToolKilled
<1>4. CASE PypireizeTask
  BY <1>4, PypireizeRuns
<1>5. CASE Developer
  BY <1>5, ManifestEdited, CodeEdited, MetadataEdited, BundleRemoved, BuildRemoved DEF Developer
<1>6. CASE UNCHANGED pipelineVars
  <2>1. TypeOK /\ ManifestReadable /\ Released
    BY DEF Progress
  <2>2. UNCHANGED <<versionFiles, sources, products, running, release, startedBy, interventions>>
    BY <1>6 DEF pipelineVars, vars
  <2>3. VersionFilesOK' /\ SourcesOK' /\ ProductsOK' /\ ManifestReadable'
    BY <2>1, <2>2, FilesKept
  <2>4. ReleaseOK' /\ release' \in 0 .. release
    BY <2>1, <2>2 DEF TypeOK, ReleaseOK
  <2>5. UNCHANGED <<manifest, setup, init, bundles, code, metadata, ghuser, yak>>
    BY <2>2 DEF versionFiles, sources, products
  <2>6. Released'
    BY <2>1, <2>4, <2>5, Kept DEF TypeOK
  <2>7. UNCHANGED <<tool, step, version, todo, outcome>>
    BY <2>2 DEF running
  <2>8. RunningOK'
    BY <2>1, <2>5, <2>7, RunningKept
  <2>9. Unfinished'
    BY <2>7 DEF Progress, Unfinished
  <2>10. Versionizing'
    BY <2>2, <2>5, <2>7 DEF Progress, Versionizing
  <2>11. Stamping'
    BY <2>2, <2>5, <2>7 DEF Progress, Stamping, StampedWith
  <2>12. Building'
    BY <2>2, <2>5, <2>7 DEF Progress, Building, BuiltFromSources, Compiled
  <2>13. Packing'
    BY <2>2, <2>5, <2>7 DEF Progress, Packing
  <2>. QED
    BY <2>3, <2>4, <2>6, <2>8, <2>9, <2>10, <2>11, <2>12, <2>13 DEF Progress, TypeOK
<1>. QED
  BY <1>1, <1>2, <1>3, <1>4, <1>5, <1>6 DEF Next

\* What the done tasks of a release stand for, how far the running tool has come and
\* how setup.py and __init__.py are ordered hold in every state: versionize.py,
\* flagerize.py, ghcomponentizer.py, yakerize.py.
THEOREM Invariance == Spec => []IInv
<1>1. Init => IInv
  BY InitInvariant, InitInOrder DEF IInv
<1>2. IInv /\ [Next]_pipelineVars => IInv'
  BY StepInvariant, StepInOrder DEF IInv
<1>. QED
  BY <1>1, <1>2, PTL DEF Spec

\* Every variable of the release tools keeps its type.
THEOREM TypeCorrect == Spec => []TypeOK
<1>1. IInv => TypeOK
  BY DEF IInv, Progress
<1>. QED
  BY <1>1, Invariance, PTL

\* After the four tasks of a release the package, the sources and the version files
\* agree, whatever was run, edited or interrupted before.
THEOREM Consistent == Spec => []ReleaseIsConsistent
<1>1. IInv => ReleaseIsConsistent
  <2>. SUFFICES ASSUME Progress, release = 4 PROVE
         /\ yak.exists /\ yak.version = manifest.version
         /\ setup.version = manifest.version /\ init.version = manifest.version
         /\ \A c \in bundles :
               yak.contents[c] = Compiled(c) /\ code[c].text > 0 /\ code[c].head = {manifest.version}
    BY DEF ReleaseIsConsistent, IInv
  <2>1. VersionsAgree /\ StampedWith(manifest.version, bundles) /\ BuiltFromSources(bundles) /\ PackedAsBuilt
    BY DEF Progress, Released
  <2>. QED
    BY <2>1 DEF VersionsAgree, StampedWith, BuiltFromSources, PackedAsBuilt
<1>. QED
  BY <1>1, Invariance, PTL

\* A running flagerize or yakerize is moved on by its own steps or interrupted.
LEMMA MovedBy ==
    ASSUME Progress, [Next]_pipelineVars, tool \in {"flagerize", "yakerize"}, outcome' = "ok"
    PROVE  \/ tool = "flagerize" /\ StampFile
           \/ tool = "yakerize" /\ YakerizeStep
<1>1. outcome = "" /\ tool # ""
  BY DEF Progress, Unfinished
<1>2. ~StartTool
  BY <1>1 DEF StartTool, Versionize, Flagerize, Ghcomponentize, Yakerize, Idle
<1>3. ~PypireizeTask
  BY <1>1 DEF PypireizeTask, Pypireize, Idle
<1>4. ~Developer
  BY <1>1 DEF Developer, EditManifest, EditCode, EditMetadata, RemoveBundle, RemoveBuild, Edit, Idle
<1>5. ~ToolKilled
  BY DEF ToolKilled, VersionizeKilled, FlagerizeKilled, GhcomponentizeKilled, YakerizeKilled, End
<1>6. outcome' # outcome
  BY <1>1
<1>7. pipelineVars' # pipelineVars
  BY <1>6 DEF pipelineVars, vars, running
<1>8. ToolStep
  BY <1>2, <1>3, <1>4, <1>5, <1>7 DEF Next
<1>9. tool = "flagerize" => ~YakerizeStep
  BY DEF YakerizeStep, CheckAndClean, CopyFiles, BuildYak, At
<1>10. tool = "yakerize" => ~StampFile
  BY DEF StampFile, At
<1>11. ~VersionizeStep /\ ~CreateGhuserComponent
  BY DEF VersionizeStep, UpdateManifest, UpdateSetup, UpdateInit, UpdateCmake, Update, CreateGhuserComponent, At
<1>. QED
  BY <1>8, <1>9, <1>10, <1>11 DEF ToolStep

\* When flagerize reports success every code.py has its stamp.
THEOREM AllStamped == Spec => FlagerizeOkMeansAllStamped
<1>1. ASSUME Progress, [Next]_pipelineVars, tool = "flagerize", outcome' = "ok"
      PROVE  \A b \in bundles : code'[b].head = {version} /\ code'[b].text > 0
  <2>1. StampFile
    BY <1>1, MovedBy
  <2>2. PICK c \in todo :
              /\ tool = "flagerize" /\ release <= 1 /\ outcome = ""
              /\ UNCHANGED <<versionFiles, bundles, metadata, products>>
              /\ \/ code' = [code EXCEPT ![c] = EmptyFile] /\ End("failed")
                 \/ /\ code[c].text # 0 /\ code' = [code EXCEPT ![c] = Stamped(@)]
                    /\ \/ todo = {c} /\ End("ok")
                       \/ todo' = todo \ {c} /\ UNCHANGED <<tool, step, version, outcome>>
    BY <1>1, <2>1, StampFileCases
  <2>3. todo = {c} /\ code[c].text # 0 /\ code' = [code EXCEPT ![c] = Stamped(@)]
    BY <1>1, <2>2 DEF End
  <2>4. version \in Versions /\ StampedWith(version, bundles \ todo)
    BY <1>1 DEF Progress, Stamping
  <2>5. c \in bundles /\ code \in [Components -> CodeFile] /\ bundles \subseteq Components
    BY <1>1 DEF Progress, TypeOK, SourcesOK, RunningOK
  <2>6. code[c] \in CodeFile /\ code[c].text \in Nat
    BY <2>5 DEF CodeFile
  <2>7. code'[c] = Stamped(code[c]) /\ \A b \in Components \ {c} : code'[b] = code[b]
    BY <2>3, <2>5
  <2>8. code'[c].head = {version} /\ code'[c].text > 0
    BY <2>3, <2>4, <2>6, <2>7, StampedType
  <2>9. \A b \in bundles \ {c} : code'[b].head = {version} /\ code'[b].text > 0
    BY <2>3, <2>4, <2>5, <2>7 DEF StampedWith
  <2>. QED
    BY <2>8, <2>9
<1>2. IInv /\ [Next]_pipelineVars
      => [tool = "flagerize" /\ outcome' = "ok" =>
             \A c \in bundles : code'[c].head = {version} /\ code'[c].text > 0]_pipelineVars
  BY <1>1 DEF IInv
<1>. QED
  BY <1>2, Invariance, PTL DEF Spec, FlagerizeOkMeansAllStamped

\* When yakerize reports success the package is the one it has just built.
THEOREM Repacked == Spec => YakerizeOkMeansRepacked
<1>1. ASSUME Progress, [Next]_pipelineVars, tool = "yakerize", outcome' = "ok"
      PROVE  yak' = YakOf(manifest.version, ghuser)
  <2>1. YakerizeStep
    BY <1>1, MovedBy
  <2>2. /\ outcome = ""
        /\ \/ Goto("copy")
           \/ Goto("build") /\ yak' = NoYak
           \/ End("failed")
           \/ End("ok") /\ yak' = YakOf(manifest.version, ghuser)
    BY <1>1, <2>1, YakerizeCases
  <2>. QED
    BY <1>1, <2>2 DEF Goto, End
<1>2. IInv /\ [Next]_pipelineVars
      => [tool = "yakerize" /\ outcome' = "ok" => yak' = YakOf(manifest.version, ghuser)]_pipelineVars
  BY <1>1 DEF IInv
<1>. QED
  BY <1>2, Invariance, PTL DEF Spec, YakerizeOkMeansRepacked

\* Whatever version is asked for, and wherever versionize is interrupted, __init__.py
\* never holds a version that comes after setup.py's (versionize.py 40-78).
THEOREM InitFollowsSetup == Spec => []InitNotAhead
<1>1. IInv => InitNotAhead
  BY DEF IInv, FilesInOrder
<1>. QED
  BY <1>1, Invariance, PTL

\* A file is left, emptied, or rewritten with a version whose string is after its own.
LEMMA UpdateRaises ==
    ASSUME PipelineAssumption, Progress, NEW file \in VersionFile, NEW fileAfter,
           file.version = NoVersion \/ WellFormed(file.version),
           \/ fileAfter = file
           \/ fileAfter = File(NoVersion)
           \/ Accepts(file) /\ fileAfter = File(AsRead(version))
    PROVE  Raised(file, fileAfter)
<1>1. CASE fileAfter = file
  BY <1>1 DEF Raised
<1>2. CASE fileAfter = File(NoVersion)
  BY <1>2 DEF Raised, File
<1>3. CASE Accepts(file) /\ fileAfter = File(AsRead(version))
  <2>1. /\ fileAfter.version = AsRead(version) /\ AsRead(version) \in {NoVersion, version}
        /\ AsRead(version) = NoVersion \/ WellFormed(AsRead(version))
    BY <1>3, Rewritten
  <2>2. file.version \in Versions /\ WellFormed(file.version) /\ ~StringLeq(Text(version), Text(file.version))
    BY <1>3 DEF Accepts, VersionFile
  <2>3. CASE fileAfter.version = NoVersion
    BY <2>3 DEF Raised
  <2>4. CASE fileAfter.version = version /\ version # NoVersion
    <3>1. version \in Versions /\ WellFormed(version)
      BY <2>1, <2>4 DEF Progress, TypeOK, RunningOK
    <3>2. OneDigit(file.version) /\ OneDigit(version) => Smaller(file.version, version)
      BY <2>2, <3>1, GreaterIsLater
    <3>. QED
      BY <2>4, <3>2 DEF Raised
  <2>. QED
    BY <2>1, <2>3, <2>4
<1>. QED
  BY <1>1, <1>2, <1>3

\* versionize only raises the version of a file, as long as the parts of the versions
\* have one digit (versionize.py 28, 48, 68).
THEOREM Rising == Spec => VersionsOnlyRise
<1>1. ASSUME IInv, [Next]_pipelineVars, tool = "versionize"
      PROVE  Raised(manifest, manifest') /\ Raised(setup, setup') /\ Raised(init, init')
  <2>1. Progress /\ FilesInOrder /\ PipelineAssumption
    BY <1>1, PipelineAssumption DEF IInv
  <2>2. manifest \in VersionFile /\ setup \in VersionFile /\ init \in VersionFile
    BY <2>1 DEF Progress, TypeOK, VersionFilesOK
  <2>3. \A file \in {manifest, setup, init} : file.version = NoVersion \/ WellFormed(file.version)
    BY <2>1 DEF Progress, ManifestReadable, FilesInOrder
  <2>4. /\ manifest' = manifest \/ manifest' = File(NoVersion) \/ (Accepts(manifest) /\ manifest' = File(AsRead(version)))
        /\ setup' = setup \/ setup' = File(NoVersion) \/ (Accepts(setup) /\ setup' = File(AsRead(version)))
        /\ init' = init \/ init' = File(NoVersion) \/ (Accepts(init) /\ init' = File(AsRead(version)))
    <3>1. CASE VersionizeStep
      BY <3>1 DEF VersionizeStep, UpdateManifest, UpdateSetup, UpdateInit, UpdateCmake, Update
    <3>2. CASE VersionizeKilled
      BY <3>2 DEF VersionizeKilled, Emptied
    <3>3. CASE ~VersionizeStep /\ ~VersionizeKilled
      BY <1>1, <3>3, OthersKeepFiles
    <3>. QED
      BY <3>1, <3>2, <3>3
  <2>5. Raised(manifest, manifest')
    BY <2>1, <2>2, <2>3, <2>4, UpdateRaises
  <2>6. Raised(setup, setup')
    BY <2>1, <2>2, <2>3, <2>4, UpdateRaises
  <2>7. Raised(init, init')
    BY <2>1, <2>2, <2>3, <2>4, UpdateRaises
  <2>. QED
    BY <2>5, <2>6, <2>7
<1>2. IInv /\ [Next]_pipelineVars
      => [tool = "versionize" =>
             Raised(manifest, manifest') /\ Raised(setup, setup') /\ Raised(init, init')]_pipelineVars
  BY <1>1
<1>. QED
  BY <1>2, Invariance, PTL DEF Spec, VersionsOnlyRise
=============================================================================
