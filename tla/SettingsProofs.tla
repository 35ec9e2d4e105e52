--------------------------- MODULE SettingsProofs ---------------------------
(***************************************************************************)
(* What lasts over a restart, for every build, any number of handlers, of   *)
(* uploads and of losses of power, and files of any length.                *)
(***************************************************************************)
EXTENDS MCSettings, Integers, SequenceTheorems, TLAPS

(***************************************************************************)
(* Updates. WholeImagesAreUsed is not inductive: UpdateInv adds that the    *)
(* upload in hand writes the slot that is not running, or the partition    *)
(* that the settings do not name, that this is the one named in flash only  *)
(* if chosen says so, and that what was written there so far is its image.  *)
(* The slot selected for boot may be a broken one: then it is not the       *)
(* running one, to which the bootloader goes back.                         *)
(***************************************************************************)

Contents == [image : Nat, blocks : Nat]

TypesAgree ==
  /\ app \in [Slots -> Contents] /\ storage \in [Slots -> Contents]
  /\ boot \in Slots /\ running \in Slots /\ spiffId \in Slots /\ named \in Slots
  /\ uploads \in Nat
  /\ partition \in [kind : {"none", "app", "storage"}, slot : Slots \cup {None}]
  /\ upload = NoUpload \/ upload \in [kind : {"app", "storage"}, image : Nat]

\* What the slot of the partition in hand holds belongs to the upload in hand.
FirmwareIsApart ==
  /\ partition.kind = "app" => partition.slot = 1 - running
  /\ upload.kind = "app" =>
       partition.kind = "app" /\ app[partition.slot].image = upload.image

FilesAreApart ==
  upload.kind = "storage" =>
     /\ partition.kind = "storage" /\ partition.slot = 1 - named
     /\ chosen \/ partition.slot # spiffId
     /\ storage[partition.slot].image = upload.image

NamesAgree == inFlash => named = spiffId

UpdateInv ==
  /\ TypesAgree
  /\ FirmwareIsApart
  /\ FilesAreApart
  /\ NamesAgree
  /\ Whole(app[running])
  /\ ServesWholeImage

\* What a step leaves alone of the firmware stays as it has to be.
LEMMA FirmwareUntouched ==
    ASSUME UpdateInv, UNCHANGED <<app, running, partition>>,
           upload' = upload \/ upload' = NoUpload
    PROVE  FirmwareIsApart' /\ Whole(app[running])'
  BY DEF UpdateInv, FirmwareIsApart, Whole, NoUpload

\* The same of the file system.
LEMMA FilesUntouched ==
    ASSUME UpdateInv, UNCHANGED <<storage, spiffId, named, inFlash>>, chosen' = chosen,
           \/ upload' = upload /\ partition' = partition
           \/ upload' = NoUpload
    PROVE  FilesAreApart' /\ NamesAgree' /\ ServesWholeImage'
  BY DEF UpdateInv, FilesAreApart, NamesAgree, ServesWholeImage, Whole, NoUpload

\* An upload begins in the slot that does not run.
LEMMA BeginOtaKeeps == ASSUME UpdateAssumption, UpdateInv, BeginOta PROVE UpdateInv'
<1>1. /\ uploads' = uploads + 1 /\ upload = NoUpload
      /\ partition' = [kind |-> "app", slot |-> 1 - running]
      /\ UNCHANGED <<boot, running, spiffId, named, inFlash, storage, chosen>>
      /\ \/ /\ app' = [app EXCEPT ![1 - running] = Image(uploads', 0)]
            /\ upload' = [kind |-> "app", image |-> uploads']
         \/ app' = app /\ upload' = upload
  BY DEF BeginOta, Request, Accept, Refuse, NextApp
<1>2. running \in Slots /\ 1 - running \in Slots /\ 1 - running # running
  BY DEF UpdateInv, TypesAgree, Slots
<1>3. TypesAgree'
  <2>1. Image(uploads', 0) \in Contents /\ uploads' \in Nat
    BY <1>1 DEF UpdateInv, TypesAgree, Contents, Image
  <2>2. app' \in [Slots -> Contents]
    BY <1>1, <1>2, <2>1 DEF UpdateInv, TypesAgree
  <2>3. upload' = NoUpload \/ upload' \in [kind : {"app", "storage"}, image : Nat]
    BY <1>1, <2>1
  <2>4. partition' \in [kind : {"none", "app", "storage"}, slot : Slots \cup {None}]
    BY <1>1, <1>2
  <2> QED
    BY <1>1, <2>1, <2>2, <2>3, <2>4 DEF UpdateInv, TypesAgree
<1>4. FirmwareIsApart' /\ Whole(app[running])'
  BY <1>1, <1>2 DEF UpdateInv, TypesAgree, FirmwareIsApart, Image, NoUpload, Whole
<1>5. FilesAreApart' /\ NamesAgree' /\ ServesWholeImage'
  BY <1>1 DEF UpdateInv, FilesAreApart, NamesAgree, ServesWholeImage, NoUpload, Whole
<1> QED
  BY <1>3, <1>4, <1>5 DEF UpdateInv

\* A block is appended to what the slot has of its image.
LEMMA WriteOtaKeeps == ASSUME UpdateInv, WriteOta PROVE UpdateInv'
<1>1. /\ upload.kind = "app"
      /\ app' = [app EXCEPT ![partition.slot].blocks = @ + 1]
      /\ UNCHANGED <<boot, running, storage, spiffId, named, inFlash, uploads, partition, upload,
                     chosen>>
  BY DEF WriteOta, memory, history
<1>2. partition.slot = 1 - running /\ partition.slot \in Slots /\ partition.slot # running
  BY <1>1 DEF UpdateInv, TypesAgree, FirmwareIsApart, Slots
<1>3. TypesAgree'
  BY <1>1, <1>2 DEF UpdateInv, TypesAgree, Contents
<1>4. FirmwareIsApart' /\ Whole(app[running])'
  BY <1>1, <1>2 DEF UpdateInv, TypesAgree, Contents, FirmwareIsApart, Whole
<1> QED
  BY <1>1, <1>3, <1>4, FilesUntouched DEF UpdateInv

\* Only a slot that has its whole image is selected for boot.
LEMMA EndOtaKeeps == ASSUME UpdateInv, NEW ok \in BOOLEAN, EndOta(ok) PROVE UpdateInv'
<1>1. /\ upload.kind = "app"
      /\ boot' = boot \/ boot' = partition.slot
      /\ partition' = NoPartition /\ upload' = NoUpload
      /\ UNCHANGED <<app, running, storage, spiffId, named, inFlash, uploads, chosen>>
  BY DEF EndOta
<1>2. partition.slot \in Slots
  BY <1>1 DEF UpdateInv, TypesAgree, FirmwareIsApart, Slots
<1>3. TypesAgree'
  BY <1>1, <1>2 DEF UpdateInv, TypesAgree, NoPartition
<1>4. FirmwareIsApart' /\ Whole(app[running])'
  BY <1>1 DEF UpdateInv, FirmwareIsApart, NoPartition, NoUpload, Whole
<1> QED
  BY <1>1, <1>3, <1>4, FilesUntouched DEF UpdateInv

\* The partition to be erased is not the one the settings name; if flash names
\* it all the same, chosen says so.
LEMMA BeginSpiffKeeps == ASSUME UpdateAssumption, UpdateInv, BeginSpiff PROVE UpdateInv'
<1>1. /\ uploads' = uploads + 1 /\ upload = NoUpload
      /\ partition' = [kind |-> "storage", slot |-> 1 - named]
      /\ storage' = [storage EXCEPT ![1 - named] = Image(uploads', 0)]
      /\ chosen' = (chosen \/ 1 - named = spiffId)
      /\ UNCHANGED <<app, boot, running, spiffId, named, inFlash>>
      /\ upload' = [kind |-> "storage", image |-> uploads'] \/ upload' = upload
  BY DEF BeginSpiff, Request, Accept, Refuse, NextStorage
<1>2. 1 - named \in Slots
  BY DEF UpdateInv, TypesAgree, Slots
<1>3. TypesAgree'
  BY <1>1, <1>2 DEF UpdateInv, TypesAgree, Contents, Image
<1>4. FirmwareIsApart' /\ Whole(app[running])'
  BY <1>1 DEF UpdateInv, FirmwareIsApart, NoUpload, Whole
<1>5. NamesAgree'
  BY <1>1 DEF UpdateInv, NamesAgree
<1>6. ServesWholeImage'
  <2> SUFFICES ASSUME ~chosen' PROVE Whole(storage'[spiffId])
    BY <1>1 DEF ServesWholeImage, Whole
  <2>1. ~chosen /\ 1 - named # spiffId
    BY <1>1
  <2>2. storage'[spiffId] = storage[spiffId]
    BY <1>1, <2>1 DEF UpdateInv, TypesAgree
  <2> QED
    BY <2>1, <2>2 DEF UpdateInv, ServesWholeImage, Whole
<1>7. FilesAreApart'
  <2> SUFFICES ASSUME upload'.kind = "storage" PROVE FilesAreApart'
    BY DEF FilesAreApart
  <2>1. upload' = [kind |-> "storage", image |-> uploads']
    BY <1>1 DEF NoUpload
  <2>2. storage'[1 - named] = Image(uploads', 0)
    BY <1>1, <1>2 DEF UpdateInv, TypesAgree
  <2>3. partition'.slot = 1 - named /\ partition'.kind = "storage"
    BY <1>1
  <2>4. chosen' \/ partition'.slot # spiffId'
    BY <1>1, <2>3
  <2> QED
    BY <1>1, <2>1, <2>2, <2>3, <2>4 DEF FilesAreApart, Image
<1> QED
  BY <1>3, <1>4, <1>5, <1>6, <1>7 DEF UpdateInv

\* A block is appended to what the partition has of its image.
LEMMA WriteSpiffKeeps == ASSUME UpdateInv, WriteSpiff PROVE UpdateInv'
<1>1. /\ upload.kind = "storage"
      /\ storage' = [storage EXCEPT ![partition.slot].blocks = @ + 1]
      /\ UNCHANGED <<app, boot, running, spiffId, named, inFlash, uploads, partition, upload, chosen>>
  BY DEF WriteSpiff, memory, history
<1>2. partition.slot \in Slots /\ (chosen \/ partition.slot # spiffId)
  BY <1>1 DEF UpdateInv, TypesAgree, FilesAreApart, Slots
<1>3. TypesAgree'
  BY <1>1, <1>2 DEF UpdateInv, TypesAgree, Contents
<1>4. FilesAreApart' /\ NamesAgree' /\ ServesWholeImage'
  BY <1>1, <1>2 DEF UpdateInv, TypesAgree, Contents, FilesAreApart, NamesAgree, ServesWholeImage,
                    Whole
<1> QED
  BY <1>1, <1>3, <1>4, FirmwareUntouched DEF UpdateInv

\* What the settings do to take a name, or to refuse it.
LEMMA NameKeeps ==
    ASSUME UpdateInv, NEW id \in Slots, Name(id), inFlash' = inFlash
    PROVE  /\ named' \in Slots /\ spiffId' \in Slots /\ NamesAgree'
           /\ spiffId' = spiffId \/ spiffId' = id
           /\ (named' = named /\ spiffId' = spiffId) \/ named' = id
  BY DEF UpdateInv, TypesAgree, NamesAgree, Name

\* The settings name the other partition only when it has its whole image.
LEMMA EndSpiffKeeps == ASSUME UpdateInv, EndSpiff PROVE UpdateInv'
<1>1. /\ upload.kind = "storage" /\ Whole(storage[partition.slot])
      /\ Name(1 - named) /\ inFlash' = inFlash
      /\ chosen' = (chosen /\ spiffId' = spiffId)
      /\ partition' = NoPartition /\ upload' = NoUpload
      /\ UNCHANGED <<app, boot, running, storage, uploads>>
  BY DEF EndSpiff
<1>2. partition.slot = 1 - named /\ 1 - named \in Slots
  BY <1>1 DEF UpdateInv, TypesAgree, FilesAreApart, Slots
<1>6. /\ named' \in Slots /\ spiffId' \in Slots /\ NamesAgree'
      /\ spiffId' = spiffId \/ spiffId' = partition.slot
  BY <1>1, <1>2, NameKeeps
<1>3. TypesAgree'
  BY <1>1, <1>6 DEF UpdateInv, TypesAgree, NoPartition
<1>4. FirmwareIsApart' /\ Whole(app[running])'
  BY <1>1 DEF UpdateInv, FirmwareIsApart, NoPartition, NoUpload, Whole
<1>5. FilesAreApart' /\ ServesWholeImage'
  BY <1>1, <1>6 DEF UpdateInv, FilesAreApart, ServesWholeImage, NoUpload, Whole
<1> QED
  BY <1>3, <1>4, <1>5, <1>6 DEF UpdateInv

\* The bootloader finds a whole image: the selected slot, or else the one that
\* was running.
LEMMA StartKeeps == ASSUME UpdateInv, Start PROVE UpdateInv'
<1>1. /\ running' = IF Whole(app[boot]) THEN boot ELSE 1 - boot
      /\ named' = (IF inFlash' THEN spiffId ELSE 0)
      /\ storage' = [storage EXCEPT ![named'].blocks =
                        IF Whole(storage[named']) THEN @ ELSE 0]
      /\ partition' = NoPartition /\ upload' = NoUpload
      /\ UNCHANGED <<app, boot, spiffId, uploads, chosen>>
  BY DEF Start, history
<1>2. running' \in Slots /\ named' \in Slots /\ NamesAgree'
  BY <1>1 DEF UpdateInv, TypesAgree, Slots, NamesAgree
<1>3. Whole(app[running'])
  <2>1. CASE Whole(app[boot])
    BY <1>1, <2>1
  <2>2. CASE ~Whole(app[boot])
    <3>1. boot # running
      BY <2>2 DEF UpdateInv
    <3>2. 1 - boot = running
      BY <3>1 DEF UpdateInv, TypesAgree, Slots
    <3> QED
      BY <1>1, <2>2, <3>2 DEF UpdateInv
  <2> QED
    BY <2>1, <2>2
<1>4. storage' \in [Slots -> Contents]
  BY <1>1, <1>2 DEF UpdateInv, TypesAgree, Contents
<1>5. TypesAgree'
  BY <1>1, <1>2, <1>4 DEF UpdateInv, TypesAgree, NoPartition
<1>6. Whole(storage[spiffId]) => Whole(storage'[spiffId])
  BY <1>1, <1>2 DEF UpdateInv, TypesAgree, Contents, Whole
<1>7. FirmwareIsApart' /\ Whole(app[running])'
  BY <1>1, <1>3 DEF FirmwareIsApart, NoPartition, NoUpload, Whole
<1>8. FilesAreApart' /\ ServesWholeImage'
  BY <1>1, <1>6 DEF UpdateInv, FilesAreApart, ServesWholeImage, NoUpload, Whole
<1> QED
  BY <1>2, <1>5, <1>7, <1>8 DEF UpdateInv

LEMMA UpdateInvIsInductive ==
    ASSUME UpdateAssumption, UpdateInv, [Next]_vars
    PROVE  UpdateInv'
<1>1. CASE BeginOtaAsserts \/ BeginSpiffAsserts \/ UnmountFails
  <2>1. UNCHANGED <<app, boot, storage, spiffId, named, inFlash, running, partition, upload, chosen>>
    BY <1>1 DEF BeginOtaAsserts, BeginSpiffAsserts, UnmountFails, Abort, flash
  <2>2. uploads' = uploads \/ uploads' = uploads + 1
    BY <1>1 DEF BeginOtaAsserts, BeginSpiffAsserts, UnmountFails, Request
  <2>3. uploads' \in Nat
    BY <2>2 DEF UpdateInv, TypesAgree
  <2> QED
    BY <2>1, <2>3, FirmwareUntouched, FilesUntouched DEF UpdateInv, TypesAgree
<1>2. CASE SetSpiffId
  <2>1. /\ UNCHANGED <<app, boot, storage, running, inFlash, partition, upload, uploads>>
        /\ upload = NoUpload /\ Name(1 - named) /\ chosen' = (chosen \/ spiffId' # spiffId)
    BY <1>2 DEF SetSpiffId
  <2>2. 1 - named \in Slots
    BY DEF UpdateInv, TypesAgree, Slots
  <2>3. named' \in Slots /\ spiffId' \in Slots /\ NamesAgree'
    BY <2>1, <2>2, NameKeeps
  <2>4. TypesAgree'
    BY <2>1, <2>3 DEF UpdateInv, TypesAgree
  <2>5. FilesAreApart' /\ ServesWholeImage'
    BY <2>1 DEF UpdateInv, FilesAreApart, ServesWholeImage, NoUpload, Whole
  <2> QED
    BY <2>1, <2>3, <2>4, <2>5, FirmwareUntouched DEF UpdateInv
<1>3. CASE LoseUpload
  <2>1. /\ UNCHANGED <<app, boot, storage, spiffId, named, inFlash, running, partition, chosen, uploads>>
        /\ upload' = NoUpload
    BY <1>3 DEF LoseUpload, flash, history
  <2> QED
    BY <2>1, FirmwareUntouched, FilesUntouched DEF UpdateInv, TypesAgree
<1>4. CASE HandleEnd \/ UNCHANGED vars
  <2>1. UNCHANGED <<app, boot, storage, spiffId, named, inFlash, running, partition, upload, chosen,
                    uploads>>
    BY <1>4 DEF HandleEnd, vars, flash, memory, history
  <2> QED
    BY <2>1, FirmwareUntouched, FilesUntouched DEF UpdateInv, TypesAgree
<1>5. CASE Restart \/ LosePower
  BY <1>5, StartKeeps DEF Restart, LosePower
<1> QED
  BY <1>1, <1>2, <1>3, <1>4, <1>5, BeginOtaKeeps, WriteOtaKeeps, EndOtaKeeps,
     BeginSpiffKeeps, WriteSpiffKeeps, EndSpiffKeeps DEF Next

LEMMA UpdateInitEstablishes == ASSUME UpdateAssumption, Init PROVE UpdateInv
<1>1. TypesAgree
  BY DEF UpdateAssumption, Init, TypesAgree, Contents, Slots, Image, NoPartition
<1>2. FirmwareIsApart /\ FilesAreApart
  BY DEF Init, FirmwareIsApart, FilesAreApart, NoPartition, NoUpload
<1>3. Whole(app[running]) /\ ServesWholeImage /\ NamesAgree
  BY DEF Init, Slots, Whole, Image, ServesWholeImage, NamesAgree
<1> QED
  BY <1>1, <1>2, <1>3 DEF UpdateInv

\* There is always a whole firmware to run and, unless the user chose another or
\* erased it while nvs was out of use, a whole file system to serve (fb_update.cpp,
\* and the two partitions of each).
THEOREM WholeImagesAreAlwaysUsed ==
    ASSUME UpdateAssumption
    PROVE  Spec => []WholeImagesAreUsed
<1>1. Init => UpdateInv
  BY UpdateAssumption, UpdateInitEstablishes
<1>2. UpdateInv /\ [Next]_vars => UpdateInv'
  BY UpdateAssumption, UpdateInvIsInductive
<1>3. UpdateInv => WholeImagesAreUsed
  <2> SUFFICES ASSUME UpdateInv PROVE WholeImagesAreUsed
    OBVIOUS
  <2>1. running \in Slots /\ 1 - running # running
    BY DEF UpdateInv, TypesAgree, Slots
  <2> QED
    BY <2>1 DEF UpdateInv, FirmwareIsApart, WholeImagesAreUsed, RunsWholeImage
<1> QED
  BY UpdateAssumption, <1>1, <1>2, <1>3, PTL DEF Spec

\* The answer "Success" of either kind of update tells the truth, except that the
\* settings may have refused the name of the new file system: then all is as before
\* and the new one is whole beside it (Updater::end and endSpiff, setSpiffId).
THEOREM SuccessMeansInstalled ==
    ASSUME UpdateAssumption
    PROVE  Spec => SuccessIsInstalled
<1>1. Init => UpdateInv
  BY UpdateAssumption, UpdateInitEstablishes
<1>2. UpdateInv /\ [Next]_vars => UpdateInv'
  BY UpdateAssumption, UpdateInvIsInductive
<1>3. ASSUME UpdateInv, [Next]_vars, succeeded' # succeeded
      PROVE  \/ upload.kind = "app" /\ FirmwareInstalled'
             \/ upload.kind = "storage" /\ ~refused' /\ FilesInstalled'
             \/ /\ upload.kind = "storage" /\ refused' /\ UNCHANGED <<spiffId, named, mounted>>
                /\ storage'[1 - named] = Image(succeeded', Blocks)
  <2>1. CASE EndOta(TRUE) \/ EndOta(FALSE)
    <3>1. /\ upload.kind = "app" /\ Whole(app[partition.slot])
          /\ boot' = partition.slot /\ succeeded' = upload.image /\ app' = app
      BY <1>3, <2>1 DEF EndOta
    <3>2. partition.slot \in Slots
      BY <1>3, <3>1 DEF UpdateInv, TypesAgree, FirmwareIsApart, Slots
    <3>3. app[partition.slot] = Image(upload.image, Blocks)
      BY <1>3, <3>1, <3>2 DEF UpdateInv, TypesAgree, Contents, FirmwareIsApart, Whole, Image
    <3> QED
      BY <3>1, <3>3 DEF FirmwareInstalled, Image
  <2>2. CASE EndSpiff
    <3>1. /\ upload.kind = "storage" /\ Whole(storage[partition.slot])
          /\ mounted = named /\ mounted' = named' /\ Name(1 - named)
          /\ refused' = (named' = named) /\ inFlash' = inFlash
          /\ succeeded' = upload.image /\ storage' = storage
      BY <2>2 DEF EndSpiff
    <3>2. partition.slot = 1 - named /\ partition.slot \in Slots /\ 1 - named # named
      BY <1>3, <3>1 DEF UpdateInv, TypesAgree, FilesAreApart, Slots
    <3>3. storage'[1 - named] = Image(succeeded', Blocks)
      BY <1>3, <3>1, <3>2 DEF UpdateInv, TypesAgree, Contents, FilesAreApart, Whole, Image
    <3>4. CASE refused'
      <4>1. named' = named /\ spiffId' = spiffId
        BY <1>3, <3>1, <3>2, <3>4, NameKeeps
      <4> QED
        BY <3>1, <3>3, <3>4, <4>1
    <3>5. CASE ~refused'
      <4>1. named' = 1 - named /\ NamesAgree'
        BY <1>3, <3>1, <3>2, <3>5, NameKeeps
      <4>2. FilesInstalled'
        BY <3>1, <3>3, <4>1 DEF FilesInstalled, NamesAgree, Image
      <4> QED
        BY <3>1, <3>5, <4>2
    <3> QED
      BY <3>4, <3>5
  <2>3. CASE BeginOta \/ WriteOta \/ BeginSpiff \/ WriteSpiff
    BY <1>3, <2>3 DEF BeginOta, WriteOta, BeginSpiff, WriteSpiff, Accept, Refuse, history
  <2>4. CASE BeginOtaAsserts \/ BeginSpiffAsserts \/ UnmountFails
    BY <1>3, <2>4 DEF BeginOtaAsserts, BeginSpiffAsserts, UnmountFails, Abort
  <2>5. CASE SetSpiffId \/ LoseUpload \/ HandleEnd \/ Restart \/ LosePower \/ UNCHANGED vars
    BY <1>3, <2>5 DEF SetSpiffId, LoseUpload, HandleEnd, Restart, LosePower, Start, vars,
                      history
  <2> QED
    BY <1>3, <2>1, <2>2, <2>3, <2>4, <2>5 DEF Next
<1> QED
  BY UpdateAssumption, <1>1, <1>2, <1>3, PTL DEF Spec, SuccessIsInstalled

-----------------------------------------------------------------------------
\* What was passed is the file from its beginning on, as far as the handler
\* came, which is all of it when nothing is still to come.
PassedSoFar ==
  /\ passed = HeaderLen .. (last.to - 1)
  /\ last.to \in Int /\ HeaderLen <= last.to
  /\ state = "header" => remaining = MP!Length /\ last.to = HeaderLen
  /\ state = "data" /\ remaining # 0 =>
       remaining > SeparatorLen /\ last.to = MP!Length - remaining
  /\ state = "data" /\ remaining = 0 => last.to >= MP!DataEnd
  /\ state = "end" => last.to >= MP!DataEnd

CutInv ==
  /\ dataLen \in Nat /\ remaining \in 0 .. MP!Length
  /\ state \in {"header", "data", "end", "aborted"}
  /\ PassedSoFar

\* A part is handed over that begins where the last one ended.
LEMMA ProvideKeeps ==
    ASSUME MP!MultipartAssumption, CutInv,
           NEW received \in Nat \ {0}, received <= remaining,
           remaining' = remaining - received, dataLen' = dataLen,
           NEW from \in Nat, NEW block \in Nat, block = MP!Length - remaining,
           last.to = from, HeaderLen <= from,
           remaining > SeparatorLen,
           \/ block = 0 /\ from = HeaderLen /\ from <= received
           \/ from = block,
           MP!Provide(from, received, remaining - received, block)
    PROVE  CutInv'
<1> DEFINE rest == remaining - received
           to == from + MP!ValidLen(from, received, rest, block)
<1>1. /\ HeaderLen \in Nat /\ SeparatorLen \in Nat /\ SeparatorLen > 0 /\ TailLen \in Nat
      /\ remaining \in Nat /\ remaining <= MP!Length
      /\ MP!Length \in Nat /\ MP!Length = MP!DataEnd + SeparatorLen + TailLen
      /\ MP!DataEnd \in Nat
  BY DEF MP!MultipartAssumption, CutInv, MP!Length, MP!DataEnd
<1>2. rest \in Nat /\ block \in Nat /\ block + received = MP!Length - rest
  BY <1>1
<1>3. /\ to \in Int /\ to >= from
      /\ rest <= SeparatorLen => to >= MP!DataEnd
      /\ rest > SeparatorLen => to = MP!Length - rest
  <2>0. to = from + MP!ValidLen(from, received, rest, block)
    OBVIOUS
  <2>1. CASE rest = 0
    <3>1. received = MP!Length - block
      BY <1>1, <1>2, <2>1
    <3>2. \/ text /\ from <= MP!DataEnd /\ to = from + (MP!DataEnd - from)
          \/ to = from + (received - SeparatorLen)
      BY <2>0, <2>1 DEF MP!ValidLen
    <3> HIDE DEF to, rest
    <3>3. CASE text /\ from <= MP!DataEnd /\ to = from + (MP!DataEnd - from)
      <4>1. to = MP!DataEnd
        BY <1>1, <3>3
      <4> QED
        BY <1>1, <2>1, <3>3, <4>1
    <3>4. CASE to = from + (received - SeparatorLen)
      <4>1. received > SeparatorLen
        BY <1>1, <3>1
      <4>2. to = from + (MP!Length - block - SeparatorLen)
        BY <3>1, <3>4
      <4>3. from >= block
        BY <1>1, <1>2
      <4> QED
        BY <1>1, <1>2, <2>1, <3>4, <4>1, <4>2, <4>3
    <3> QED
      BY <3>2, <3>3, <3>4
  <2>2. CASE rest > 0 /\ rest <= SeparatorLen
    <3>1. to = from + (received - ((from - block) - (SeparatorLen - rest)))
      BY <2>0, <2>2 DEF MP!ValidLen
    <3> HIDE DEF to, rest
    <3>2. to = MP!Length - rest + (SeparatorLen - rest)
      BY <1>1, <1>2, <3>1
    <3>3. to >= from
      BY <1>1, <1>2, <2>2, <3>1
    <3> QED
      BY <1>1, <1>2, <2>2, <3>2, <3>3
  <2>3. CASE rest > SeparatorLen
    <3>1. to = from + (received - (from - block))
      BY <1>1, <2>0, <2>3 DEF MP!ValidLen
    <3> HIDE DEF to, rest
    <3> QED
      BY <1>1, <1>2, <2>3, <3>1
  <2> HIDE DEF to, rest
  <2> QED
    BY <1>1, <1>2, <2>1, <2>2, <2>3
<1>4. /\ passed' = passed \cup from .. (to - 1)
      /\ last'.to = to
      /\ state' = IF rest > 0 /\ rest <= SeparatorLen THEN "end" ELSE "data"
  BY DEF MP!Provide
<1> HIDE DEF to, rest
<1>5. passed' = HeaderLen .. (last'.to - 1)
  <2>1. passed = HeaderLen .. (from - 1)
    BY DEF CutInv, PassedSoFar
  <2>2. passed' = HeaderLen .. (from - 1) \cup from .. (to - 1)
    BY <1>4, <2>1
  <2>3. HeaderLen .. (from - 1) \cup from .. (to - 1) = HeaderLen .. (to - 1)
    BY <1>1, <1>3
  <2> QED
    BY <1>4, <2>2, <2>3
<1>6. MP!Length' = MP!Length /\ MP!DataEnd' = MP!DataEnd
  BY DEF MP!Length, MP!DataEnd
<1>7. remaining' = rest /\ rest <= MP!Length
  BY <1>1, <1>2 DEF rest
<1>8. PassedSoFar'
  BY <1>1, <1>2, <1>3, <1>4, <1>5, <1>6, <1>7 DEF PassedSoFar
<1> QED
  BY <1>1, <1>2, <1>4, <1>6, <1>7, <1>8 DEF CutInv

\* No more is received than is still to come.
LEMMA MinOfTwo ==
    ASSUME NEW a \in Nat, NEW b \in Nat
    PROVE  MP!Min({a, b}) = IF a <= b THEN a ELSE b
  BY DEF MP!Min

\* Each block is cut behind the header and before the separator, wherever it ends.
LEMMA CutInvIsInductive ==
    ASSUME MP!MultipartAssumption, CutInv, [MP!Next]_(MP!vars)
    PROVE  CutInv'
<1>1. CASE UNCHANGED MP!vars
  BY <1>1 DEF MP!vars, CutInv, PassedSoFar, MP!Length, MP!DataEnd
<1>2. CASE remaining > 0 /\ state # "aborted" /\ MP!Receive
  <2>1. BufferLen \in Nat /\ remaining \in Nat /\ HeaderLen \in Nat /\ SeparatorLen \in Nat
        /\ MP!Length \in Nat /\ HeaderLen + SeparatorLen <= MP!Length
    BY DEF MP!MultipartAssumption, CutInv, MP!Length
  <2>2. PICK received \in 1 .. MP!Min({BufferLen, remaining}) :
          /\ remaining' = remaining - received
          /\ \/ MP!ReceiveHeader(received) \/ MP!ReceivePartOfHeader(received)
             \/ MP!ReceiveData(received) \/ MP!ReceiveEnd
          /\ UNCHANGED <<dataLen, text>>
    BY <1>2 DEF MP!Receive
  <2>3. received \in Nat \ {0} /\ received <= remaining
    BY <2>1, <2>2, MinOfTwo
  <2>4. MP!Length' = MP!Length /\ MP!DataEnd' = MP!DataEnd /\ remaining' \in 0 .. MP!Length
    BY <2>1, <2>2, <2>3 DEF MP!Length, MP!DataEnd, CutInv
  <2>5. CASE MP!ReceiveHeader(received)
    <3>1. remaining = MP!Length /\ last.to = HeaderLen
      BY <2>5 DEF MP!ReceiveHeader, CutInv, PassedSoFar
    <3>2. MP!Provide(HeaderLen, received, remaining - received, 0) /\ HeaderLen <= received
      BY <2>5 DEF MP!ReceiveHeader
    <3>3. remaining > SeparatorLen
      BY <2>1, <3>1 DEF MP!MultipartAssumption
    <3> QED
      BY <2>1, <2>2, <2>3, <3>1, <3>2, <3>3, ProvideKeeps
  <2>6. CASE MP!ReceivePartOfHeader(received)
    BY <2>2, <2>4, <2>6 DEF MP!ReceivePartOfHeader, CutInv, PassedSoFar
  <2>7. CASE MP!ReceiveData(received)
    <3> DEFINE block == MP!Length - remaining
    <3>1. remaining > SeparatorLen /\ last.to = block /\ HeaderLen <= block
      BY <1>2, <2>7 DEF MP!ReceiveData, CutInv, PassedSoFar
    <3>2. MP!Provide(block, received, remaining - received, block)
      BY <2>7 DEF MP!ReceiveData
    <3> QED
      BY <2>1, <2>2, <2>3, <3>1, <3>2, ProvideKeeps
  <2>8. CASE MP!ReceiveEnd
    BY <2>2, <2>4, <2>8 DEF MP!ReceiveEnd, CutInv, PassedSoFar
  <2> QED
    BY <2>2, <2>5, <2>6, <2>7, <2>8
<1> QED
  BY <1>1, <1>2 DEF MP!Next, MP!Done, MP!Stopped

\* However the body of an upload is cut into blocks, what is passed on begins
\* with the file, has no gap and in the end holds all of it, for any lengths of
\* header, file, separator and buffer (_multipartFileInputHandler).
THEOREM UploadIsCutWhole ==
    ASSUME MP!MultipartAssumption
    PROVE  MP!Spec => []NothingIsLost
<1>1. MP!Init => CutInv
  BY MP!MultipartAssumption
     DEF MP!MultipartAssumption, MP!Init, CutInv, PassedSoFar, MP!Length, MP!DataEnd
<1>2. CutInv => NothingIsLost
  <2> SUFFICES ASSUME CutInv PROVE NothingIsLost
    OBVIOUS
  <2>1. passed = HeaderLen .. (last.to - 1) /\ last.to \in Int
    BY DEF CutInv, PassedSoFar
  <2>2. ASSUME remaining = 0, state # "aborted" PROVE last.to >= MP!DataEnd
    BY <2>2, MP!MultipartAssumption
       DEF MP!MultipartAssumption, CutInv, PassedSoFar, MP!Length, MP!DataEnd
  <2>3. HeaderLen \in Nat /\ MP!DataEnd \in Nat
    BY MP!MultipartAssumption DEF MP!MultipartAssumption, CutInv, MP!DataEnd
  <2>4. remaining = 0 /\ state # "aborted" => HeaderLen .. (MP!DataEnd - 1) \subseteq passed
    BY <2>1, <2>2, <2>3
  <2> QED
    BY <2>1, <2>4 DEF NothingIsLost, MP!NothingIsLost
<1>3. CutInv /\ [MP!Next]_(MP!vars) => CutInv'
  BY MP!MultipartAssumption, CutInvIsInductive
<1> QED
  BY MP!MultipartAssumption, <1>1, <1>2, <1>3, PTL DEF MP!Spec

-----------------------------------------------------------------------------
(***************************************************************************)
(* The settings: what a handler still has to do is plain, or a reset.       *)
(***************************************************************************)

\* A statement that sets a field or stores a value, and what is left of a
\* reset after each of its statements. (The provers take no string literal for a
\* member of STRING.)
Names == STRING \cup PR!NetKeys \cup {"s_id"}
Plain == [op : {"field", "put", "keep"}, on : Names, val : Int]

Clear1 == <<PR!EraseKey("ap_pass")>>
Clear2 == <<PR!EraseKey("ap_ssid"), PR!EraseKey("ap_pass")>>
Clear3 == <<PR!EraseKey("sta_pass"), PR!EraseKey("ap_ssid"), PR!EraseKey("ap_pass")>>
Clear4 == <<PR!EraseKey("sta_ssid"), PR!EraseKey("sta_pass"), PR!EraseKey("ap_ssid"),
            PR!EraseKey("ap_pass")>>
Resets == {Clear1, Clear2, Clear3, Clear4, PR!ClearWifi}

\* A reset erases five keys, one statement after the other.
LEMMA TailOfReset ==
    /\ Tail(Clear1) = << >> /\ Tail(Clear2) = Clear1 /\ Tail(Clear3) = Clear2
    /\ Tail(Clear4) = Clear3 /\ Tail(PR!ClearWifi) = Clear4
  BY DEF Clear1, Clear2, Clear3, Clear4, PR!ClearWifi

LEMMA HeadOfReset ==
    /\ Head(Clear1) = PR!EraseKey("ap_pass") /\ Head(Clear2) = PR!EraseKey("ap_ssid")
    /\ Head(Clear3) = PR!EraseKey("sta_pass") /\ Head(Clear4) = PR!EraseKey("sta_ssid")
    /\ Head(PR!ClearWifi) = PR!EraseKey("wifi_mode")
  BY DEF Clear1, Clear2, Clear3, Clear4, PR!ClearWifi

LEMMA LenOfReset ==
    /\ Len(Clear1) = 1 /\ Len(Clear2) = 2 /\ Len(Clear3) = 3 /\ Len(Clear4) = 4
    /\ Len(PR!ClearWifi) = 5
  BY DEF Clear1, Clear2, Clear3, Clear4, PR!ClearWifi

\* How far a reset has come can be told from what is left of it.
LEMMA ResetsDiffer ==
    /\ Clear4 \notin {Clear1, Clear2, Clear3, PR!ClearWifi}
    /\ Clear3 \notin {Clear1, Clear2, PR!ClearWifi}
    /\ Clear2 \notin {Clear1, PR!ClearWifi} /\ Clear1 # PR!ClearWifi
    /\ {Clear1, Clear2, Clear3, Clear4} \subseteq Resets
<1>1. Clear4 # Clear1 /\ Clear4 # Clear2 /\ Clear4 # Clear3 /\ Clear4 # PR!ClearWifi
  BY LenOfReset
<1>2. Clear3 # Clear1 /\ Clear3 # Clear2 /\ Clear3 # PR!ClearWifi
  BY LenOfReset
<1>3. Clear2 # Clear1 /\ Clear2 # PR!ClearWifi /\ Clear1 # PR!ClearWifi
  BY LenOfReset
<1>4. {Clear1, Clear2, Clear3, Clear4} \subseteq Resets
  BY DEF Resets
<1> QED
  BY <1>1, <1>2, <1>3, <1>4

\* What a reset does next, and what is left of it.
LEMMA ResetGoesOn ==
    ASSUME NEW s \in Resets
    PROVE  /\ s # << >> /\ Tail(s) \in Resets \cup {<< >>}
           /\ Head(s).op = "erase" /\ Head(s).val = PR!Missing
           /\ Len(s) = 5 => Head(s).on = "wifi_mode"
<1>1. CASE s = Clear1
  BY <1>1, TailOfReset, HeadOfReset, LenOfReset DEF PR!EraseKey, Clear1
<1>2. CASE s = Clear2
  BY <1>2, TailOfReset, HeadOfReset, LenOfReset DEF Resets, PR!EraseKey, Clear2
<1>3. CASE s = Clear3
  BY <1>3, TailOfReset, HeadOfReset, LenOfReset DEF Resets, PR!EraseKey, Clear3
<1>4. CASE s = Clear4
  BY <1>4, TailOfReset, HeadOfReset, LenOfReset DEF Resets, PR!EraseKey, Clear4
<1>5. CASE s = PR!ClearWifi
  BY <1>5, TailOfReset, HeadOfReset, LenOfReset DEF Resets, PR!EraseKey, PR!ClearWifi
<1> QED
  BY <1>1, <1>2, <1>3, <1>4, <1>5 DEF Resets

\* The same of a handler that erases nothing.
LEMMA PlainGoesOn ==
    ASSUME NEW s \in Seq(Plain), s # << >>
    PROVE  Head(s) \in Plain /\ Head(s).op # "erase" /\ Tail(s) \in Seq(Plain)
<1>1. Head(s) \in Plain /\ Tail(s) \in Seq(Plain)
  BY HeadTailProperties
<1> QED
  BY <1>1 DEF Plain

LEMMA PutIsPlain ==
    ASSUME NEW k \in Names, NEW v \in Int
    PROVE  PR!PutKey(k, v) \in Plain
  BY DEF Plain, PR!PutKey

LEMMA KeepIsPlain ==
    ASSUME NEW k \in Names, NEW v \in Int
    PROVE  PR!KeepKey(k, v) \in Plain
  BY DEF Plain, PR!KeepKey

LEMMA PrintedIsInt == ASSUME NEW k, NEW v \in Int PROVE PR!Printed(k, v) \in Int
  BY DEF PR!Printed, PR!SixDigits

\* No setter and no message erases anything.
LEMMA PutsArePlain ==
    ASSUME NEW keys \in Seq(STRING), NEW v \in Int
    PROVE  [i \in DOMAIN keys |-> PR!PutKey(keys[i], PR!Printed(keys[i], v))] \in Seq(Plain)
<1>1. Len(keys) \in Nat /\ DOMAIN keys = 1 .. Len(keys)
  BY LenProperties
<1>2. \A i \in 1 .. Len(keys) : PR!PutKey(keys[i], PR!Printed(keys[i], v)) \in Plain
  BY <1>1, PutIsPlain, PrintedIsInt, ElementOfSeq DEF Names
<1> QED
  BY <1>1, <1>2, SeqDef

LEMMA FieldsArePlain ==
    ASSUME NEW fields \in Seq(STRING), NEW v \in Int
    PROVE  [i \in DOMAIN fields |-> PR!SetField(fields[i], v)] \in Seq(Plain)
<1>1. Len(fields) \in Nat /\ DOMAIN fields = 1 .. Len(fields)
  BY LenProperties
<1>2. \A i \in 1 .. Len(fields) : PR!SetField(fields[i], v) \in Plain
  BY <1>1, ElementOfSeq DEF PR!SetField, Plain, Names
<1> QED
  BY <1>1, <1>2, SeqDef

LEMMA OneIsPlain == ASSUME NEW a \in Plain PROVE <<a>> \in Seq(Plain)
  OBVIOUS

LEMMA ThreeArePlain ==
    ASSUME NEW a \in Plain, NEW b \in Plain, NEW c \in Plain
    PROVE  <<a, b, c>> \in Seq(Plain)
  OBVIOUS

LEMMA SetterIsPlain ==
    ASSUME PR!PropertiesAssumption, PR!TablesAssumption, project \in Projects,
           NEW k \in DOMAIN PR!build.props, NEW v \in Values
    PROVE  PR!Setter(k, v) \in Seq(Plain)
<1>1. /\ PR!build.props[k] \in Seq(STRING) /\ k \in STRING
      /\ v \in Int
  BY PR!PropertiesAssumption, PR!TablesAssumption
     DEF PR!PropertiesAssumption, PR!TablesAssumption, PR!build
<1>2. PR!Printed(k, v) \in Int
  BY <1>1, PrintedIsInt
<1>3. <<PR!KeepKey(k, PR!Printed(k, v))>> \in Seq(Plain)
  <2>1. PR!KeepKey(k, PR!Printed(k, v)) \in Plain
    BY <1>1, <1>2, KeepIsPlain DEF Names
  <2> QED
    BY <2>1, OneIsPlain
<1>4. [i \in DOMAIN PR!build.props[k] |-> PR!SetField(PR!build.props[k][i], v)] \in Seq(Plain)
  BY <1>1, FieldsArePlain
<1>5. /\ PR!Setter(k, v) = [i \in DOMAIN PR!build.props[k] |->
                               PR!SetField(PR!build.props[k][i], v)]
                            \o <<PR!KeepKey(k, PR!Printed(k, v))>>
  BY DEF PR!Setter
<1> QED
  BY <1>3, <1>4, <1>5, ConcatProperties

(***************************************************************************)
(* A reset, with power lost and handlers of other threads anywhere. What    *)
(* makes ResetIsForGood true: nothing but a reset runs while the objects    *)
(* are started, and RamStorage is empty then.                              *)
(***************************************************************************)
ForGoodInv ==
  /\ project \in Projects
  /\ PR!NetKeys \subseteq DOMAIN nvs /\ PR!NetKeys \subseteq DOMAIN ram
  /\ store \in {"nvs", "ram"} /\ phase \in {"off", "boot", "provision", "work"}
  /\ todo \in [PR!Threads -> Seq(Plain) \cup Resets]
  /\ phase = "off" => todo = PR!Idle
  /\ phase = "boot" => \A t \in PR!Threads : todo[t] \in Resets \cup {<< >>}
  /\ phase = "boot" /\ store = "ram" => ram["wifi_mode"] = PR!Missing
  /\ forgetting => nvs["wifi_mode"] = PR!Missing

\* What a thread that goes on leaves behind.
LEMMA StatementKeepsTodo ==
    ASSUME ForGoodInv, NEW t \in PR!Threads, todo[t] # << >>,
           todo' = [todo EXCEPT ![t] = Tail(@)]
    PROVE  /\ todo' \in [PR!Threads -> Seq(Plain) \cup Resets]
           /\ todo[t] \in Resets \cup {<< >>} => todo'[t] \in Resets \cup {<< >>}
           /\ \A u \in PR!Threads \ {t} : todo'[u] = todo[u]
<1>1. CASE todo[t] \in Resets
  <2>1. Tail(todo[t]) \in Resets \cup {<< >>}
    BY <1>1, ResetGoesOn
  <2>2. << >> \in Seq(Plain)
    OBVIOUS
  <2> QED
    BY <2>1, <2>2 DEF ForGoodInv
<1>2. CASE todo[t] \in Seq(Plain) /\ todo[t] \notin Resets
  <2>1. Tail(todo[t]) \in Seq(Plain)
    BY <1>2, PlainGoesOn
  <2> QED
    BY <1>2, <2>1 DEF ForGoodInv
<1> QED
  BY <1>1, <1>2 DEF ForGoodInv

\* One statement of a thread: while the objects start only a reset has any left.
LEMMA StatementIsForGood ==
    ASSUME ForGoodInv, NEW t \in PR!Threads, PR!Statement(t)
    PROVE  ForGoodInv'
<1>1. /\ todo[t] # << >> /\ todo' = [todo EXCEPT ![t] = Tail(@)]
      /\ UNCHANGED <<project, phase, store>>
  BY DEF PR!Statement
<1>2. /\ todo' \in [PR!Threads -> Seq(Plain) \cup Resets]
      /\ phase' # "off"
      /\ phase' = "boot" => \A u \in PR!Threads : todo'[u] \in Resets \cup {<< >>}
  BY <1>1, StatementKeepsTodo DEF ForGoodInv, PR!Idle
<1>3. /\ PR!NetKeys \subseteq DOMAIN nvs' /\ PR!NetKeys \subseteq DOMAIN ram'
      /\ phase' = "boot" /\ store' = "ram" => ram'["wifi_mode"] = PR!Missing
      /\ forgetting' => nvs'["wifi_mode"] = PR!Missing
  <2>0. "wifi_mode" \in PR!NetKeys
    BY DEF PR!NetKeys
  <2>1. CASE UNCHANGED <<nvs, ram, forgetting>>
    BY <1>1, <2>1 DEF ForGoodInv
  <2>2. CASE Head(todo[t]).op = "field"
    BY <2>1, <2>2 DEF PR!Statement
  <2>3. CASE /\ Head(todo[t]).op # "field"
             /\ PR!WriteStorage(Head(todo[t]).on, Head(todo[t]).val)
             /\ forgetting' =
                  IF store = "ram" THEN forgetting
                  ELSE IF Head(todo[t]).op = "erase"
                  THEN forgetting \/ Len(todo[t]) = Len(PR!ClearWifi)
                  ELSE forgetting /\ Head(todo[t]).on # "wifi_mode"
    <3>1. CASE todo[t] \in Resets
      <4>1. /\ Head(todo[t]).op = "erase" /\ Head(todo[t]).val = PR!Missing
            /\ Len(todo[t]) = 5 => Head(todo[t]).on = "wifi_mode"
            /\ Len(PR!ClearWifi) = 5
        BY <3>1, ResetGoesOn, LenOfReset
      <4>2. CASE store = "nvs"
        <5>1. forgetting' => forgetting \/ Head(todo[t]).on = "wifi_mode"
          BY <2>3, <4>1, <4>2, Zenon
        <5>2. nvs' = [nvs EXCEPT ![Head(todo[t]).on] = PR!Missing] /\ ram' = ram
          BY <2>3, <4>1, <4>2 DEF PR!WriteStorage
        <5> QED
          BY <1>1, <2>0, <4>2, <5>1, <5>2 DEF ForGoodInv
      <4>3. CASE store = "ram"
        <5>1. forgetting' = forgetting /\ UNCHANGED nvs
          BY <2>3, <4>3 DEF PR!WriteStorage
        <5>2. ram' = [ram EXCEPT ![Head(todo[t]).on] = PR!Missing]
          BY <2>3, <4>1, <4>3 DEF PR!WriteStorage
        <5> QED
          BY <1>1, <2>0, <4>3, <5>1, <5>2 DEF ForGoodInv
      <4> QED
        BY <4>2, <4>3 DEF ForGoodInv
    <3>2. CASE todo[t] \in Seq(Plain)
      <4>1. Head(todo[t]).op # "erase"
        BY <1>1, <3>2, PlainGoesOn
      <4>2. phase # "boot"
        BY <1>1, <3>2, <4>1, ResetGoesOn DEF ForGoodInv
      <4>3. CASE store = "nvs"
        BY <1>1, <2>0, <2>3, <4>1, <4>2, <4>3 DEF ForGoodInv, PR!WriteStorage
      <4>4. CASE store = "ram"
        BY <1>1, <2>0, <2>3, <4>1, <4>2, <4>4 DEF ForGoodInv, PR!WriteStorage
      <4> QED
        BY <4>3, <4>4 DEF ForGoodInv
    <3> QED
      BY <3>1, <3>2 DEF ForGoodInv
  <2> QED
    BY <2>1, <2>2, <2>3 DEF PR!Statement
<1> QED
  BY <1>1, <1>2, <1>3 DEF ForGoodInv

LEMMA CredentialsArePlain ==
    ASSUME NEW v \in Int PROVE PR!Credentials(v) \in Seq(Plain)
<1>1. /\ PR!PutKey("wifi_mode", PR!AP) \in Plain /\ PR!PutKey("ap_ssid", v) \in Plain
      /\ PR!PutKey("ap_pass", v) \in Plain /\ PR!PutKey("wifi_mode", PR!STA) \in Plain
      /\ PR!PutKey("sta_ssid", v) \in Plain /\ PR!PutKey("sta_pass", v) \in Plain
  BY DEF PR!AP, PR!STA, PR!PutKey, Plain, Names, PR!NetKeys
<1> QED
  BY <1>1, ThreeArePlain DEF PR!Credentials

\* A handler begins: what it will do is a reset, or erases nothing and is not
\* begun while the objects are started.
LEMMA BeginIsForGood ==
    ASSUME PR!PropertiesAssumption, PR!TablesAssumption, ForGoodInv,
           NEW t \in PR!Threads, NEW stmts \in Seq(Plain) \cup Resets, PR!Begin(t, stmts),
           forgetting' = forgetting, phase # "off", phase = "boot" => stmts \in Resets
    PROVE  ForGoodInv'
<1>1. /\ todo' = [todo EXCEPT ![t] = stmts]
      /\ UNCHANGED <<project, phase, nvs, ram, store, forgetting>>
  BY DEF PR!Begin
<1> QED
  BY <1>1 DEF ForGoodInv

LEMMA ForGoodIsInductive ==
    ASSUME PR!PropertiesAssumption, PR!TablesAssumption, ForGoodInv, [PR!Next]_(PR!vars)
    PROVE  ForGoodInv'
<1>1. CASE UNCHANGED PR!vars
  BY <1>1 DEF ForGoodInv, PR!vars, PR!Threads, PR!Idle, PR!NetKeys
<1>2. CASE PR!PowerOn
  <2>1. /\ store' \in {"nvs", "ram"} /\ ram' = PR!Nothing /\ phase' = "boot"
        /\ phase = "off" /\ UNCHANGED <<project, nvs, todo, forgetting>>
    BY <1>2 DEF PR!PowerOn
  <2>2. PR!NetKeys \subseteq DOMAIN PR!Nothing /\ PR!Nothing["wifi_mode"] = PR!Missing
    BY DEF PR!Nothing, PR!Keys, PR!NetKeys
  <2>3. todo' = [t \in PR!Threads |-> << >>]
    BY <2>1 DEF ForGoodInv, PR!Idle
  <2> QED
    BY <2>1, <2>2, <2>3 DEF ForGoodInv, PR!Threads, PR!NetKeys
<1>3. CASE PR!LeaveHwInit \/ PR!Provisioned
  BY <1>3 DEF PR!LeaveHwInit, PR!Provisioned, ForGoodInv
<1>4. CASE PR!PowerOff
  <2>1. << >> \in Seq(Plain)
    OBVIOUS
  <2> QED
    BY <1>4, <2>1 DEF PR!PowerOff, ForGoodInv, PR!Idle
<1>5. ASSUME NEW k \in DOMAIN PR!build.props, NEW v \in Values, PR!SetProperty(k, v)
      PROVE  ForGoodInv'
  <2>1. PR!Setter(k, v) \in Seq(Plain)
    BY SetterIsPlain DEF ForGoodInv
  <2> QED
    BY <1>5, <2>1, BeginIsForGood DEF PR!SetProperty, PR!Threads
<1>6. ASSUME NEW k \in PR!CoreProps, NEW v \in Values, PR!SetCoreProperty(k, v)
      PROVE  ForGoodInv'
  <2>1. k \in {"sta_ssid", "sta_pass", "s_id"}
    BY DEF PR!CoreProps
  <2>2. PR!KeepKey(k, v) \in Plain
    <3>1. k \in Names
      BY <2>1 DEF Names, PR!NetKeys
    <3>2. v \in Int
      BY PR!PropertiesAssumption DEF PR!PropertiesAssumption
    <3> QED
      BY <3>1, <3>2, KeepIsPlain
  <2> QED
    BY <1>6, <2>2, OneIsPlain, BeginIsForGood
       DEF PR!SetCoreProperty, PR!CoreSetter, PR!Threads
<1>7. ASSUME NEW v \in Values, PR!RemoteStores(v) PROVE ForGoodInv'
  <2>1. PR!build.remote \in Seq(STRING) /\ v \in Int
    BY PR!TablesAssumption, PR!PropertiesAssumption
       DEF ForGoodInv, PR!TablesAssumption, PR!PropertiesAssumption, PR!build
  <2>2. [i \in DOMAIN PR!build.remote |->
           PR!PutKey(PR!build.remote[i], PR!Printed(PR!build.remote[i], v))] \in Seq(Plain)
    BY <2>1, PutsArePlain
  <2> QED
    BY <1>7, <2>2, BeginIsForGood DEF PR!RemoteStores, PR!Threads
<1>8. ASSUME NEW t \in PR!Threads, PR!Reset(t) PROVE ForGoodInv'
  BY <1>8, BeginIsForGood DEF PR!Reset, Resets
<1>9. ASSUME NEW mode \in {PR!AP, PR!STA}, PR!ChooseMode(mode) PROVE ForGoodInv'
  <2>1. PR!PutKey("wifi_mode", mode) \in Plain
    BY DEF PR!AP, PR!STA, PR!PutKey, Plain, Names, PR!NetKeys
  <2> QED
    BY <1>9, <2>1, OneIsPlain, BeginIsForGood DEF PR!ChooseMode, PR!Threads
<1>10. ASSUME NEW v \in Values, PR!ReceiveCredentials(v) PROVE ForGoodInv'
  <2>1. PR!Credentials(v) \in Seq(Plain)
    BY CredentialsArePlain, PR!PropertiesAssumption DEF PR!PropertiesAssumption
  <2> QED
    BY <1>10, <2>1, BeginIsForGood DEF PR!ReceiveCredentials, PR!Threads
<1>11. CASE PR!FilesUpdated
  <2>1. PICK id \in {PR!Default, 1} : PR!Begin("httpd", <<PR!PutKey("s_id", id)>>)
    BY <1>11 DEF PR!FilesUpdated
  <2>2. PR!PutKey("s_id", id) \in Plain
    BY PutIsPlain DEF Names, PR!Default
  <2> QED
    BY <1>11, <2>1, <2>2, OneIsPlain, BeginIsForGood DEF PR!FilesUpdated, PR!Threads
<1> QED
  BY <1>1, <1>2, <1>3, <1>4, <1>5, <1>6, <1>7, <1>8, <1>9, <1>10, <1>11, StatementIsForGood
     DEF PR!Next

LEMMA ForGoodAtFirst == ASSUME PR!Init PROVE ForGoodInv
<1>1. << >> \in Seq(Plain)
  OBVIOUS
<1> QED
  BY <1>1 DEF PR!Init, ForGoodInv, PR!Nothing, PR!Keys, PR!Idle, PR!NetKeys

\* A reset that has removed its first key is never undone: at every start that
\* follows, until a network is stored again, the device asks for one, whatever
\* was cut short and whatever other handlers were doing.
THEOREM ResetHolds ==
    ASSUME PR!PropertiesAssumption, PR!TablesAssumption
    PROVE  PR!Spec => ResetIsForGood
<1>1. PR!Init => ForGoodInv
  BY ForGoodAtFirst
<1>2. ForGoodInv /\ [PR!Next]_(PR!vars) => ForGoodInv'
  BY PR!PropertiesAssumption, PR!TablesAssumption, ForGoodIsInductive
<1>3. ASSUME ForGoodInv, [PR!Next]_(PR!vars), phase = "boot", forgetting
      PROVE  phase' # "work"
  <2>1. PR!Contents["wifi_mode"] = PR!Missing
    BY <1>3 DEF ForGoodInv, PR!Contents
  <2>2. ~PR!IsWifiProvided
    BY <2>1 DEF PR!IsWifiProvided, PR!HasKey
  <2>3. CASE PR!LeaveHwInit
    BY <2>2, <2>3 DEF PR!LeaveHwInit
  <2>4. CASE phase' = phase \/ phase' = "off"
    BY <1>3, <2>4
  <2> QED
    BY <1>3, <2>3, <2>4
       DEF PR!Next, PR!vars, PR!PowerOn, PR!PowerOff, PR!SetProperty, PR!SetCoreProperty,
           PR!RemoteStores, PR!FilesUpdated, PR!Reset, PR!ChooseMode, PR!ReceiveCredentials,
           PR!Provisioned, PR!Statement, PR!Begin
<1> QED
  BY PR!PropertiesAssumption, PR!TablesAssumption, <1>1, <1>2, <1>3, PTL
     DEF PR!Spec, ResetIsForGood, PR!ResetIsForGood

(***************************************************************************)
(* The credentials, wherever power goes while they are stored. Under the   *)
(* exceptions of ProvidedIsWhole (a write that failed, credentials of more  *)
(* than one undisturbed writing) nothing is promised. Without them, every   *)
(* other handler stays away from the keys of the network, provisioning     *)
(* finds no name when it begins and stores in an order each prefix of       *)
(* which is steady, and a reset runs alone; the flash is left steady while  *)
(* RamStorage stands in for it.                                            *)
(***************************************************************************)
Apart == {s \in Plain : s.op # "field" => s.on \notin PR!NetKeys}

Bare(c) == c["sta_ssid"] = PR!Missing /\ c["ap_ssid"] = PR!Missing

\* A password comes after its name, an access point after its mode.
Steady(c) ==
  /\ c["sta_ssid"] = PR!Missing => c["sta_pass"] = PR!Missing
  /\ c["sta_pass"] # PR!Missing => c["sta_pass"] = c["sta_ssid"]
  /\ c["ap_ssid"] # PR!Missing => c["wifi_mode"] = PR!AP

\* What provisioning still has to store, and what is stored then.
ProvisionGoesWell(left, c) ==
  \/ left = << >>
  \/ \E m \in {PR!AP, PR!STA} : left = <<PR!PutKey("wifi_mode", m)>> /\ Bare(c)
  \/ \E v \in Values :
       \/ /\ left = <<PR!PutKey("wifi_mode", PR!AP), PR!PutKey("ap_ssid", v),
                      PR!PutKey("ap_pass", v)>>
          /\ Bare(c)
       \/ /\ left = <<PR!PutKey("ap_ssid", v), PR!PutKey("ap_pass", v)>>
          /\ Bare(c) /\ c["wifi_mode"] = PR!AP
       \/ left = <<PR!PutKey("ap_pass", v)>>
       \/ /\ left = <<PR!PutKey("wifi_mode", PR!STA), PR!PutKey("sta_ssid", v),
                      PR!PutKey("sta_pass", v)>>
          /\ Bare(c)
       \/ left = <<PR!PutKey("sta_ssid", v), PR!PutKey("sta_pass", v)>> /\ Bare(c)
       \/ left = <<PR!PutKey("sta_pass", v)>> /\ c["sta_ssid"] = v

\* What a reset still has to erase, and what is gone then.
ResetGoesWell(left, c) ==
  /\ left # PR!ClearWifi => c["wifi_mode"] = PR!Missing
  /\ left \in {Clear1, Clear2, Clear3} => c["sta_ssid"] = PR!Missing
  /\ left \in {Clear1, Clear2} => c["sta_pass"] = PR!Missing
  /\ left = Clear1 => c["ap_ssid"] = PR!Missing

NoReset == \A t \in PR!Threads : todo[t] \notin Resets

CredentialsGoWell ==
  /\ \A t \in PR!Threads \ {"provision"} : todo[t] \in Seq(Apart) \cup Resets
  /\ ProvisionGoesWell(todo["provision"], PR!Contents)
  /\ \A t \in PR!Threads : todo[t] \in Resets =>
        /\ \A u \in PR!Threads \ {t} : todo[u] \notin Resets
        /\ todo["provision"] = << >>
        /\ ResetGoesWell(todo[t], PR!Contents)
  /\ NoReset => Steady(PR!Contents)
  /\ store = "ram" => Steady(nvs)

NetInv ==
  /\ ForGoodInv
  /\ torn \in BOOLEAN /\ failed \in BOOLEAN
  /\ ~torn /\ ~failed => CredentialsGoWell

LEMMA PlainIsNoReset == ASSUME NEW s \in Seq(Plain) PROVE s \notin Resets
  BY ResetGoesOn, PlainGoesOn

LEMMA ApartIsPlain == Seq(Apart) \subseteq Seq(Plain)
<1>1. Apart \subseteq Plain
  BY DEF Apart
<1> QED
  BY <1>1, SeqMonotonic

\* Threads that keep off the keys of the network go on doing so.
LEMMA ApartGoesOn ==
    ASSUME NEW s \in Seq(Apart), s # << >>
    PROVE  /\ Head(s) \in Apart /\ Tail(s) \in Seq(Apart)
           /\ Head(s).op # "field" => Head(s).on \notin PR!NetKeys
<1>1. Head(s) \in Apart /\ Tail(s) \in Seq(Apart)
  BY HeadTailProperties
<1> QED
  BY <1>1 DEF Apart, Plain

\* The guard of the code sees a reset as what it is.
LEMMA ResettingIsAReset == ASSUME ForGoodInv PROVE PR!Resetting <=> ~NoReset
<1>1. \A t \in PR!Threads : todo[t] \in Seq(Plain) \cup Resets
  BY DEF ForGoodInv
<1>2. \A t \in PR!Threads :
        (todo[t] # << >> /\ Head(todo[t]).op = "erase") <=> todo[t] \in Resets
  BY <1>1, ResetGoesOn, PlainGoesOn
<1> QED
  BY <1>2 DEF PR!Resetting, NoReset

\* Only the keys of the network matter.
LEMMA SameNetwork ==
    ASSUME NEW c, NEW d, \A k \in PR!NetKeys : d[k] = c[k], NEW left
    PROVE  /\ Steady(c) => Steady(d)
           /\ ProvisionGoesWell(left, c) => ProvisionGoesWell(left, d)
           /\ ResetGoesWell(left, c) => ResetGoesWell(left, d)
<1>1. /\ d["wifi_mode"] = c["wifi_mode"] /\ d["sta_ssid"] = c["sta_ssid"]
      /\ d["sta_pass"] = c["sta_pass"] /\ d["ap_ssid"] = c["ap_ssid"]
  BY DEF PR!NetKeys
<1>2. Steady(c) => Steady(d)
  BY <1>1 DEF Steady
<1>3. ProvisionGoesWell(left, c) => ProvisionGoesWell(left, d)
  BY <1>1 DEF ProvisionGoesWell, Bare
<1>4. ResetGoesWell(left, c) => ResetGoesWell(left, d)
  BY <1>1 DEF ResetGoesWell
<1> QED
  BY <1>2, <1>3, <1>4

\* A write changes one key of the contents, in memory or in flash.
LEMMA WriteIsAnExcept ==
    ASSUME ForGoodInv, NEW k, NEW v, PR!WriteStorage(k, v), store' = store
    PROVE  /\ PR!Contents' = [PR!Contents EXCEPT ![k] = v]
           /\ store = "ram" => nvs' = nvs
           /\ PR!NetKeys \subseteq DOMAIN PR!Contents
<1>1. CASE store = "nvs"
  BY <1>1 DEF PR!WriteStorage, PR!Contents, ForGoodInv
<1>2. CASE store = "ram"
  BY <1>2 DEF PR!WriteStorage, PR!Contents, ForGoodInv
<1> QED
  BY <1>1, <1>2 DEF ForGoodInv

\* A handler that stays away from the keys of the network begins or goes on.
LEMMA OthersGoOn ==
    ASSUME ForGoodInv, CredentialsGoWell,
           NEW t \in PR!Threads \ {"provision"}, NEW left \in Seq(Apart),
           todo' = [todo EXCEPT ![t] = left], todo[t] \notin Resets, store' = store,
           \A k \in PR!NetKeys : PR!Contents'[k] = PR!Contents[k],
           store = "ram" => nvs' = nvs
    PROVE  CredentialsGoWell'
<1>1. left \notin Resets
  BY ApartIsPlain, PlainIsNoReset
<1>2. \A u \in PR!Threads : u # t => todo'[u] = todo[u]
  BY DEF ForGoodInv
<1>3. todo'[t] = left /\ "provision" \in PR!Threads /\ todo'["provision"] = todo["provision"]
  BY DEF ForGoodInv, PR!Threads
<1>4. NoReset' => NoReset
  BY <1>1, <1>2, <1>3 DEF NoReset, PR!Threads
<1>5. \A u \in PR!Threads \ {"provision"} : todo'[u] \in Seq(Apart) \cup Resets
  BY <1>2, <1>3 DEF CredentialsGoWell
<1>6. ProvisionGoesWell(todo'["provision"], PR!Contents')
  BY <1>3, SameNetwork DEF CredentialsGoWell
<1>7. ASSUME NEW u \in PR!Threads, todo'[u] \in Resets
      PROVE  /\ \A w \in PR!Threads \ {u} : todo'[w] \notin Resets
             /\ todo'["provision"] = << >>
             /\ ResetGoesWell(todo'[u], PR!Contents')
  <2>1. u # t /\ todo[u] \in Resets /\ todo'[u] = todo[u]
    BY <1>1, <1>2, <1>3, <1>7
  <2> QED
    BY <1>1, <1>2, <1>3, <2>1, SameNetwork DEF CredentialsGoWell
<1>8. NoReset' => Steady(PR!Contents')
  BY <1>4, SameNetwork DEF CredentialsGoWell
<1>9. store' = "ram" => Steady(nvs')
  BY DEF CredentialsGoWell
<1> QED
  BY <1>5, <1>6, <1>7, <1>8, <1>9
     DEF CredentialsGoWell, PR!Threads, PR!Missing, PR!AP, PR!STA, PR!PutKey,
         ProvisionGoesWell, ResetGoesWell, Bare, Steady

\* A reset erases its next key.
LEMMA ResetGoesOnWell ==
    ASSUME ForGoodInv, CredentialsGoWell,
           NEW t \in PR!Threads, todo[t] \in Resets,
           todo' = [todo EXCEPT ![t] = Tail(@)], store' = store,
           PR!WriteStorage(Head(todo[t]).on, Head(todo[t]).val)
    PROVE  CredentialsGoWell'
<1> DEFINE c == PR!Contents
           d == PR!Contents'
<1>1. /\ d = [c EXCEPT ![Head(todo[t]).on] = PR!Missing]
      /\ store = "ram" => nvs' = nvs
      /\ {"wifi_mode", "sta_ssid", "sta_pass", "ap_ssid", "ap_pass"} \subseteq DOMAIN c
  BY WriteIsAnExcept, ResetGoesOn DEF PR!NetKeys
<1>2. /\ todo["provision"] = << >> /\ t # "provision"
      /\ \A u \in PR!Threads \ {t} : todo[u] \notin Resets
      /\ ResetGoesWell(todo[t], c)
  BY ResetGoesOn DEF CredentialsGoWell
<1>3. /\ \A u \in PR!Threads : u # t => todo'[u] = todo[u]
      /\ todo'[t] = Tail(todo[t])
      /\ todo'["provision"] = << >>
  BY <1>2 DEF ForGoodInv, PR!Threads
<1>4. /\ Tail(todo[t]) \in Resets => ResetGoesWell(Tail(todo[t]), d)
      /\ Tail(todo[t]) \notin Resets => Steady(d)
      /\ Tail(todo[t]) \in Resets \cup {<< >>}
  <2> HIDE DEF c, d
  <2>1. CASE todo[t] = PR!ClearWifi
    <3>1. d["wifi_mode"] = PR!Missing /\ Tail(todo[t]) = Clear4
      BY <1>1, <2>1, HeadOfReset, TailOfReset DEF PR!EraseKey
    <3>2. Clear4 \notin {Clear1, Clear2, Clear3} /\ Clear4 \in Resets
      BY ResetsDiffer
    <3> QED
      BY <3>1, <3>2 DEF ResetGoesWell
  <2>2. CASE todo[t] = Clear4
    <3>1. /\ d["sta_ssid"] = PR!Missing /\ Tail(todo[t]) = Clear3
          /\ d["wifi_mode"] = c["wifi_mode"]
      BY <1>1, <2>2, HeadOfReset, TailOfReset DEF PR!EraseKey
    <3>2. /\ Clear3 \notin {Clear1, Clear2} /\ Clear3 \in Resets
          /\ Clear4 # PR!ClearWifi
      BY ResetsDiffer
    <3> QED
      BY <1>2, <2>2, <3>1, <3>2 DEF ResetGoesWell
  <2>3. CASE todo[t] = Clear3
    <3>1. /\ d["sta_pass"] = PR!Missing /\ Tail(todo[t]) = Clear2
          /\ d["wifi_mode"] = c["wifi_mode"] /\ d["sta_ssid"] = c["sta_ssid"]
      BY <1>1, <2>3, HeadOfReset, TailOfReset DEF PR!EraseKey
    <3>2. Clear2 # Clear1 /\ Clear2 \in Resets /\ Clear3 # PR!ClearWifi
      BY ResetsDiffer
    <3> QED
      BY <1>2, <2>3, <3>1, <3>2 DEF ResetGoesWell
  <2>4. CASE todo[t] = Clear2
    <3>1. /\ d["ap_ssid"] = PR!Missing /\ Tail(todo[t]) = Clear1
          /\ d["wifi_mode"] = c["wifi_mode"] /\ d["sta_ssid"] = c["sta_ssid"]
          /\ d["sta_pass"] = c["sta_pass"]
      BY <1>1, <2>4, HeadOfReset, TailOfReset DEF PR!EraseKey
    <3>2. Clear1 \in Resets /\ Clear2 # PR!ClearWifi
      BY ResetsDiffer
    <3> QED
      BY <1>2, <2>4, <3>1, <3>2 DEF ResetGoesWell
  <2>5. CASE todo[t] = Clear1
    <3>1. /\ Tail(todo[t]) = << >>
          /\ d["wifi_mode"] = c["wifi_mode"] /\ d["sta_ssid"] = c["sta_ssid"]
          /\ d["sta_pass"] = c["sta_pass"] /\ d["ap_ssid"] = c["ap_ssid"]
      BY <1>1, <2>5, HeadOfReset, TailOfReset DEF PR!EraseKey
    <3>2. Clear1 # PR!ClearWifi /\ << >> \notin Resets
      BY ResetsDiffer, ResetGoesOn
    <3>3. /\ d["sta_ssid"] = PR!Missing /\ d["sta_pass"] = PR!Missing
          /\ d["ap_ssid"] = PR!Missing
      BY <1>2, <2>5, <3>1, <3>2 DEF ResetGoesWell
    <3> QED
      BY <3>1, <3>2, <3>3 DEF Steady
  <2> QED
    BY <2>1, <2>2, <2>3, <2>4, <2>5 DEF Resets
<1>5. NoReset' => Tail(todo[t]) \notin Resets
  BY <1>3 DEF NoReset, PR!Threads
<1>6. \A u \in PR!Threads \ {"provision"} : todo'[u] \in Seq(Apart) \cup Resets
  <2>1. << >> \in Seq(Apart)
    OBVIOUS
  <2> QED
    BY <1>3, <1>4, <2>1 DEF CredentialsGoWell
<1>7. ProvisionGoesWell(todo'["provision"], d)
  BY <1>3 DEF ProvisionGoesWell
<1>8. ASSUME NEW u \in PR!Threads, todo'[u] \in Resets
      PROVE  /\ \A w \in PR!Threads \ {u} : todo'[w] \notin Resets
             /\ todo'["provision"] = << >>
             /\ ResetGoesWell(todo'[u], d)
  <2>1. u = t
    BY <1>2, <1>3, <1>8
  <2> QED
    BY <1>2, <1>3, <1>4, <1>8, <2>1
<1>9. store' = "ram" => Steady(nvs')
  BY <1>1 DEF CredentialsGoWell
<1> QED
  BY <1>4, <1>5, <1>6, <1>7, <1>8, <1>9
     DEF CredentialsGoWell, PR!Threads, PR!Missing, PR!AP, PR!STA, PR!PutKey,
         ProvisionGoesWell, ResetGoesWell, Bare, Steady

\* Provisioning stores its next key.
LEMMA PutIsSteady ==
    ASSUME PR!PropertiesAssumption, NEW c, PR!NetKeys \subseteq DOMAIN c, Steady(c),
           NEW left, ProvisionGoesWell(left, c), left # << >>
    PROVE  LET d == [c EXCEPT ![Head(left).on] = Head(left).val]
           IN  ProvisionGoesWell(Tail(left), d) /\ Steady(d)
<1> DEFINE d == [c EXCEPT ![Head(left).on] = Head(left).val]
<1>1. {"wifi_mode", "sta_ssid", "sta_pass", "ap_ssid", "ap_pass"} \subseteq DOMAIN c
  BY DEF PR!NetKeys
<1>2. ASSUME NEW m \in {PR!AP, PR!STA}, left = <<PR!PutKey("wifi_mode", m)>>, Bare(c)
      PROVE  ProvisionGoesWell(Tail(left), d) /\ Steady(d)
  <2>1. /\ Tail(left) = << >> /\ d["sta_ssid"] = c["sta_ssid"]
        /\ d["sta_pass"] = c["sta_pass"] /\ d["ap_ssid"] = c["ap_ssid"]
    BY <1>1, <1>2 DEF PR!PutKey
  <2> QED
    BY <1>2, <2>1 DEF ProvisionGoesWell, Steady, Bare
<1>3. ASSUME NEW v \in Values,
             left = <<PR!PutKey("wifi_mode", PR!AP), PR!PutKey("ap_ssid", v),
                      PR!PutKey("ap_pass", v)>>, Bare(c)
      PROVE  ProvisionGoesWell(Tail(left), d) /\ Steady(d)
  <2>1. /\ Tail(left) = <<PR!PutKey("ap_ssid", v), PR!PutKey("ap_pass", v)>>
        /\ d["sta_ssid"] = c["sta_ssid"] /\ d["wifi_mode"] = PR!AP
        /\ d["sta_pass"] = c["sta_pass"] /\ d["ap_ssid"] = c["ap_ssid"]
    BY <1>1, <1>3 DEF PR!PutKey
  <2> QED
    BY <1>3, <2>1 DEF ProvisionGoesWell, Steady, Bare
<1>4. ASSUME NEW v \in Values,
             left = <<PR!PutKey("ap_ssid", v), PR!PutKey("ap_pass", v)>>, Bare(c),
             c["wifi_mode"] = PR!AP
      PROVE  ProvisionGoesWell(Tail(left), d) /\ Steady(d)
  <2>1. /\ Tail(left) = <<PR!PutKey("ap_pass", v)>>
        /\ d["sta_ssid"] = c["sta_ssid"] /\ d["wifi_mode"] = c["wifi_mode"]
        /\ d["sta_pass"] = c["sta_pass"]
    BY <1>1, <1>4 DEF PR!PutKey
  <2> QED
    BY <1>4, <2>1 DEF ProvisionGoesWell, Steady, Bare
<1>5. ASSUME NEW v \in Values, left = <<PR!PutKey("ap_pass", v)>>
      PROVE  ProvisionGoesWell(Tail(left), d) /\ Steady(d)
  <2>1. /\ Tail(left) = << >>
        /\ d["sta_ssid"] = c["sta_ssid"] /\ d["wifi_mode"] = c["wifi_mode"]
        /\ d["sta_pass"] = c["sta_pass"] /\ d["ap_ssid"] = c["ap_ssid"]
    BY <1>1, <1>5 DEF PR!PutKey
  <2> QED
    BY <2>1 DEF ProvisionGoesWell, Steady
<1>6. ASSUME NEW v \in Values,
             left = <<PR!PutKey("wifi_mode", PR!STA), PR!PutKey("sta_ssid", v),
                      PR!PutKey("sta_pass", v)>>, Bare(c)
      PROVE  ProvisionGoesWell(Tail(left), d) /\ Steady(d)
  <2>1. /\ Tail(left) = <<PR!PutKey("sta_ssid", v), PR!PutKey("sta_pass", v)>>
        /\ d["sta_ssid"] = c["sta_ssid"]
        /\ d["sta_pass"] = c["sta_pass"] /\ d["ap_ssid"] = c["ap_ssid"]
    BY <1>1, <1>6 DEF PR!PutKey
  <2> QED
    BY <1>6, <2>1 DEF ProvisionGoesWell, Steady, Bare
<1>7. ASSUME NEW v \in Values,
             left = <<PR!PutKey("sta_ssid", v), PR!PutKey("sta_pass", v)>>, Bare(c)
      PROVE  ProvisionGoesWell(Tail(left), d) /\ Steady(d)
  <2>1. /\ Tail(left) = <<PR!PutKey("sta_pass", v)>> /\ d["sta_ssid"] = v
        /\ d["sta_pass"] = c["sta_pass"] /\ d["ap_ssid"] = c["ap_ssid"]
    BY <1>1, <1>7 DEF PR!PutKey
  <2>2. v # PR!Missing
    BY PR!PropertiesAssumption DEF PR!PropertiesAssumption, PR!Missing
  <2> QED
    BY <1>7, <2>1, <2>2 DEF ProvisionGoesWell, Steady, Bare
<1>8. ASSUME NEW v \in Values, left = <<PR!PutKey("sta_pass", v)>>, c["sta_ssid"] = v
      PROVE  ProvisionGoesWell(Tail(left), d) /\ Steady(d)
  <2>1. /\ Tail(left) = << >> /\ d["sta_ssid"] = v /\ d["sta_pass"] = v
        /\ d["wifi_mode"] = c["wifi_mode"] /\ d["ap_ssid"] = c["ap_ssid"]
    BY <1>1, <1>8 DEF PR!PutKey
  <2>2. v # PR!Missing
    BY PR!PropertiesAssumption DEF PR!PropertiesAssumption, PR!Missing
  <2> QED
    BY <2>1, <2>2 DEF ProvisionGoesWell, Steady
<1> QED
  BY <1>2, <1>3, <1>4, <1>5, <1>6, <1>7, <1>8 DEF ProvisionGoesWell

\* Provisioning begins, or goes on, and no reset runs.
LEMMA ProvisionGoesOn ==
    ASSUME ForGoodInv, CredentialsGoWell, NoReset, NEW left, store' = store,
           todo' = [todo EXCEPT !["provision"] = left], left \notin Resets,
           ProvisionGoesWell(left, PR!Contents'), Steady(PR!Contents'),
           store = "ram" => nvs' = nvs
    PROVE  CredentialsGoWell'
<1>1. \A u \in PR!Threads \ {"provision"} : todo'[u] = todo[u]
  BY DEF ForGoodInv
<1>2. todo'["provision"] = left
  BY DEF ForGoodInv, PR!Threads
<1>3. \A u \in PR!Threads : todo'[u] \notin Resets
  BY <1>1, <1>2 DEF NoReset
<1>4. store' = "ram" => Steady(nvs')
  BY DEF CredentialsGoWell
<1>5. \A u \in PR!Threads \ {"provision"} : todo'[u] \in Seq(Apart) \cup Resets
  BY <1>1 DEF CredentialsGoWell
<1> QED
  BY <1>2, <1>3, <1>4, <1>5
     DEF CredentialsGoWell, PR!Threads, PR!Missing, PR!AP, PR!STA, PR!PutKey,
         ProvisionGoesWell, ResetGoesWell, Bare, Steady

\* Nothing is stored, and a reset or nothing is left to do.
LEMMA StillGoesWell ==
    ASSUME ForGoodInv, CredentialsGoWell, NoReset, Steady(PR!Contents'),
           store' = "ram" => Steady(nvs'), todo' = PR!Idle
    PROVE  CredentialsGoWell'
<1>1. \A t \in PR!Threads : todo'[t] = << >>
  BY DEF PR!Idle
<1>2. << >> \notin Resets /\ << >> \in Seq(Apart)
  BY ResetGoesOn
<1>3. todo'["provision"] = << >>
  BY <1>1 DEF PR!Threads
<1> QED
  BY <1>1, <1>2, <1>3
     DEF CredentialsGoWell, PR!Threads, PR!Missing, PR!AP, PR!STA, PR!PutKey,
         ProvisionGoesWell, ResetGoesWell, Bare, Steady

\* Provisioning is no reset and erases nothing.
LEMMA ProvisionOnlyPuts ==
    ASSUME NEW left, NEW c, ProvisionGoesWell(left, c)
    PROVE  left \notin Resets /\ (left # << >> => Head(left).op = "put")
<1>1. left = << >> \/ Head(left).op = "put"
  BY DEF ProvisionGoesWell, PR!PutKey
<1> QED
  BY <1>1, ResetGoesOn

\* Each prefix of provisioning and of a reset is harmless, and the others keep off.
LEMMA StatementKeepsNetwork ==
    ASSUME PR!PropertiesAssumption, ForGoodInv, CredentialsGoWell,
           NEW t \in PR!Threads, PR!Statement(t), ~failed'
    PROVE  CredentialsGoWell'
<1>1. /\ todo[t] # << >> /\ todo' = [todo EXCEPT ![t] = Tail(@)] /\ store' = store
      /\ \/ Head(todo[t]).op = "field" /\ UNCHANGED <<nvs, ram>>
         \/ /\ Head(todo[t]).op # "field"
            /\ PR!WriteStorage(Head(todo[t]).on, Head(todo[t]).val)
  BY DEF PR!Statement
<1>2. CASE todo[t] \in Resets
  <2>1. Head(todo[t]).op # "field"
    BY <1>2, ResetGoesOn
  <2> QED
    BY <1>1, <1>2, <2>1, ResetGoesOnWell
<1>3. CASE t # "provision" /\ todo[t] \notin Resets
  <2>1. todo[t] \in Seq(Apart)
    BY <1>3 DEF CredentialsGoWell
  <2>2. /\ Tail(todo[t]) \in Seq(Apart)
        /\ Head(todo[t]).op # "field" => Head(todo[t]).on \notin PR!NetKeys
    BY <1>1, <2>1, ApartGoesOn
  <2>3. /\ \A k \in PR!NetKeys : PR!Contents'[k] = PR!Contents[k]
        /\ store = "ram" => nvs' = nvs
    <3>1. CASE UNCHANGED <<nvs, ram>>
      BY <1>1, <3>1 DEF PR!Contents
    <3>2. CASE PR!WriteStorage(Head(todo[t]).on, Head(todo[t]).val)
               /\ Head(todo[t]).on \notin PR!NetKeys
      <4>1. /\ PR!Contents' = [PR!Contents EXCEPT ![Head(todo[t]).on] = Head(todo[t]).val]
            /\ store = "ram" => nvs' = nvs
            /\ PR!NetKeys \subseteq DOMAIN PR!Contents
        BY <1>1, <3>2, WriteIsAnExcept
      <4> QED
        BY <3>2, <4>1
    <3> QED
      BY <1>1, <2>2, <3>1, <3>2
  <2> QED
    BY <1>1, <1>3, <2>2, <2>3, OthersGoOn
<1>4. CASE t = "provision" /\ todo[t] \notin Resets
  <2>1. NoReset /\ Steady(PR!Contents) /\ ProvisionGoesWell(todo[t], PR!Contents)
    BY <1>1, <1>4 DEF CredentialsGoWell, NoReset
  <2>2. Head(todo[t]).op = "put"
    BY <1>1, <2>1, ProvisionOnlyPuts
  <2>3. /\ PR!Contents' = [PR!Contents EXCEPT ![Head(todo[t]).on] = Head(todo[t]).val]
        /\ store = "ram" => nvs' = nvs
        /\ PR!NetKeys \subseteq DOMAIN PR!Contents
    BY <1>1, <2>2, WriteIsAnExcept
  <2>4. ProvisionGoesWell(Tail(todo[t]), PR!Contents') /\ Steady(PR!Contents')
    BY <1>1, <2>1, <2>3, PutIsSteady
  <2>5. Tail(todo[t]) \notin Resets
    BY <2>4, ProvisionOnlyPuts
  <2> QED
    BY <1>1, <1>4, <2>1, <2>3, <2>4, <2>5, ProvisionGoesOn
<1> QED
  BY <1>2, <1>3, <1>4

LEMMA SetterIsApart ==
    ASSUME PR!PropertiesAssumption, PR!TablesAssumption, project \in Projects,
           NEW k \in DOMAIN PR!build.props, NEW v \in Values
    PROVE  PR!Setter(k, v) \in Seq(Apart)
<1> DEFINE fields == PR!build.props[k]
           sets == [i \in DOMAIN fields |-> PR!SetField(fields[i], v)]
<1>1. /\ fields \in Seq(STRING) /\ k \in STRING /\ k \notin PR!NetKeys
      /\ v \in Int
  <2>1. PR!build.props \in [DOMAIN PR!build.props -> Seq(STRING)]
    BY PR!TablesAssumption DEF PR!TablesAssumption, PR!build
  <2>2. /\ DOMAIN PR!build.props \subseteq STRING \cap DOMAIN PR!build.keys
        /\ DOMAIN PR!build.keys \cap PR!NetKeys = {}
    BY PR!TablesAssumption DEF PR!TablesAssumption, PR!build
  <2> QED
    BY <2>1, <2>2, PR!PropertiesAssumption DEF PR!PropertiesAssumption
<1>2. PR!Printed(k, v) \in Int
  BY <1>1, PrintedIsInt
<1>3. <<PR!KeepKey(k, PR!Printed(k, v))>> \in Seq(Apart)
  <2>1. PR!KeepKey(k, PR!Printed(k, v)) \in Plain
    BY <1>1, <1>2, KeepIsPlain DEF Names
  <2>2. PR!KeepKey(k, PR!Printed(k, v)) \in Apart
    BY <1>1, <2>1 DEF Apart, PR!KeepKey
  <2> QED
    BY <2>2
<1>4. sets \in Seq(Apart)
  <2>1. Len(fields) \in Nat /\ DOMAIN fields = 1 .. Len(fields)
    BY <1>1, LenProperties
  <2>2. \A i \in 1 .. Len(fields) : PR!SetField(fields[i], v) \in Apart
    BY <1>1, <2>1, ElementOfSeq DEF PR!SetField, Plain, Names, Apart
  <2> HIDE DEF fields
  <2> QED
    BY <2>1, <2>2, SeqDef
<1>5. PR!Setter(k, v) = sets \o <<PR!KeepKey(k, PR!Printed(k, v))>>
  BY DEF PR!Setter
<1> QED
  <2> HIDE DEF sets
  <2> QED
    BY <1>3, <1>4, <1>5, ConcatProperties

LEMMA PutsAreApart ==
    ASSUME NEW keys \in Seq(STRING), \A i \in DOMAIN keys : keys[i] \notin PR!NetKeys,
           NEW v \in Int
    PROVE  [i \in DOMAIN keys |-> PR!PutKey(keys[i], PR!Printed(keys[i], v))] \in Seq(Apart)
<1>1. Len(keys) \in Nat /\ DOMAIN keys = 1 .. Len(keys)
  BY LenProperties
<1>2. \A i \in 1 .. Len(keys) : PR!PutKey(keys[i], PR!Printed(keys[i], v)) \in Apart
  BY <1>1, PutIsPlain, PrintedIsInt, ElementOfSeq DEF Names, Apart, PR!PutKey
<1> QED
  BY <1>1, <1>2, SeqDef

LEMMA RemoteIsApart ==
    ASSUME PR!PropertiesAssumption, PR!TablesAssumption, project \in Projects,
           NEW v \in Values
    PROVE  [i \in DOMAIN PR!build.remote |->
              PR!PutKey(PR!build.remote[i], PR!Printed(PR!build.remote[i], v))] \in Seq(Apart)
<1>1. PR!build.remote \in Seq(STRING)
  BY PR!TablesAssumption DEF PR!TablesAssumption, PR!build
<1>2. \A i \in DOMAIN PR!build.remote : PR!build.remote[i] \notin PR!NetKeys
  BY PR!TablesAssumption DEF PR!TablesAssumption, PR!build
<1>3. v \in Int
  BY PR!PropertiesAssumption DEF PR!PropertiesAssumption
<1> QED
  BY <1>1, <1>2, <1>3, PutsAreApart

\* What a handler that begins finds, while nothing is torn.
LEMMA BeginKeepsNetwork ==
    ASSUME ForGoodInv, CredentialsGoWell,
           NEW t \in PR!Threads \ {"provision"}, NEW stmts \in Seq(Apart), PR!Begin(t, stmts)
    PROVE  CredentialsGoWell'
<1>1. /\ todo[t] = << >> /\ todo' = [todo EXCEPT ![t] = stmts]
      /\ UNCHANGED <<nvs, ram, store>>
  BY DEF PR!Begin
<1>2. todo[t] \notin Resets /\ PR!Contents' = PR!Contents
  BY <1>1, ResetGoesOn DEF PR!Contents
<1> QED
  BY <1>1, <1>2, OthersGoOn

\* A reset that begins finds the credentials whole or bare.
LEMMA ResetBeginsWell ==
    ASSUME ForGoodInv, CredentialsGoWell, NEW t \in PR!Threads, PR!Reset(t), ~torn'
    PROVE  CredentialsGoWell'
<1>1. /\ todo' = [todo EXCEPT ![t] = PR!ClearWifi] /\ t # "provision"
      /\ UNCHANGED <<nvs, ram, store>>
      /\ \A u \in PR!Threads : todo[u] = << >>
  BY DEF PR!Reset, PR!Begin
<1>2. /\ todo'[t] = PR!ClearWifi
      /\ \A u \in PR!Threads \ {t} : todo'[u] = << >>
  BY <1>1 DEF ForGoodInv
<1>3. << >> \notin Resets /\ << >> \in Seq(Apart) /\ PR!ClearWifi \in Resets
  BY ResetGoesOn DEF Resets
<1>4. todo'["provision"] = << >>
  BY <1>1, <1>2 DEF PR!Threads
<1>5. ResetGoesWell(PR!ClearWifi, PR!Contents')
  BY ResetsDiffer DEF ResetGoesWell
<1>6. store' = "ram" => Steady(nvs')
  BY <1>1 DEF CredentialsGoWell
<1>7. ~NoReset'
  BY <1>2, <1>3 DEF NoReset, PR!Threads
<1>8. ProvisionGoesWell(todo'["provision"], PR!Contents')
  BY <1>4 DEF ProvisionGoesWell
<1>9. \A u \in PR!Threads \ {"provision"} : todo'[u] \in Seq(Apart) \cup Resets
  BY <1>2, <1>3
<1>10. \A u \in PR!Threads : todo'[u] \in Resets =>
          /\ \A w \in PR!Threads \ {u} : todo'[w] \notin Resets
          /\ todo'["provision"] = << >>
          /\ ResetGoesWell(todo'[u], PR!Contents')
  BY <1>2, <1>3, <1>4, <1>5
<1> QED
  BY <1>6, <1>7, <1>8, <1>9, <1>10
     DEF CredentialsGoWell, PR!Threads, PR!Missing, PR!AP, PR!STA, PR!PutKey,
         ProvisionGoesWell, ResetGoesWell, Bare, Steady

\* Provisioning that begins on bare settings brings whole ones.
LEMMA ProvisionBeginsWell ==
    ASSUME ForGoodInv, CredentialsGoWell, NEW stmts, PR!Begin("provision", stmts),
           ~PR!Overlaps, Bare(PR!Contents) => ProvisionGoesWell(stmts, PR!Contents)
    PROVE  CredentialsGoWell'
<1>1. /\ todo' = [todo EXCEPT !["provision"] = stmts]
      /\ UNCHANGED <<nvs, ram, store>>
  BY DEF PR!Begin
<1>2. NoReset /\ Bare(PR!Contents)
  BY ResettingIsAReset DEF PR!Overlaps, PR!HasKey, Bare
<1>3. PR!Contents' = PR!Contents /\ Steady(PR!Contents)
  BY <1>1, <1>2 DEF PR!Contents, CredentialsGoWell
<1>4. stmts \notin Resets
  BY <1>2, ProvisionOnlyPuts
<1> QED
  BY <1>1, <1>2, <1>3, <1>4, ProvisionGoesOn

LEMMA NetInvIsInductive ==
    ASSUME PR!PropertiesAssumption, PR!TablesAssumption, NetInv, [PR!Next]_(PR!vars)
    PROVE  NetInv'
<1>1. ForGoodInv /\ ForGoodInv'
  BY ForGoodIsInductive DEF NetInv
<1>2. /\ torn' \in BOOLEAN /\ failed' \in BOOLEAN
      /\ torn => torn'
      /\ failed => failed'
  BY DEF NetInv, PR!Next, PR!vars, PR!PowerOn, PR!LeaveHwInit, PR!PowerOff, PR!SetProperty,
         PR!SetCoreProperty, PR!RemoteStores, PR!FilesUpdated, PR!Reset, PR!ChooseMode,
         PR!ReceiveCredentials, PR!Provisioned, PR!Statement, PR!Begin, PR!Overlaps,
         PR!Resetting, PR!HasKey
<1> SUFFICES ASSUME ~torn', ~failed' PROVE CredentialsGoWell'
  BY <1>1, <1>2 DEF NetInv
<1>3. CredentialsGoWell
  BY <1>2 DEF NetInv
<1>4. CASE UNCHANGED PR!vars \/ PR!LeaveHwInit \/ PR!Provisioned
  <2>1. UNCHANGED <<todo, nvs, ram, store>>
    BY <1>4 DEF PR!vars, PR!LeaveHwInit, PR!Provisioned
  <2> QED
    BY <1>3, <2>1
       DEF CredentialsGoWell, PR!Threads, PR!Missing, PR!AP, PR!STA, PR!PutKey, PR!Contents,
           ProvisionGoesWell, ResetGoesWell, Bare, Steady, NoReset
<1>5. CASE PR!PowerOn
  <2>1. /\ todo = PR!Idle /\ todo' = todo /\ nvs' = nvs /\ ram' = PR!Nothing
        /\ store' \in {"nvs", "ram"}
    BY <1>1, <1>5 DEF PR!PowerOn, ForGoodInv
  <2>2. NoReset /\ todo' = PR!Idle
    BY <2>1, ResetGoesOn DEF NoReset, PR!Idle
  <2>3. Steady(nvs)
    BY <1>1, <1>3, <2>2 DEF CredentialsGoWell, PR!Contents, ForGoodInv
  <2>4. Steady(ram')
    BY <2>1 DEF PR!Nothing, PR!Keys, PR!NetKeys, Steady
  <2>5. Steady(PR!Contents')
    BY <2>1, <2>3, <2>4 DEF PR!Contents
  <2> QED
    BY <1>1, <1>3, <2>1, <2>2, <2>3, <2>5, StillGoesWell
<1>6. CASE PR!PowerOff
  <2>1. todo' = PR!Idle /\ UNCHANGED <<nvs, ram, store>> /\ ~PR!Resetting
    BY <1>6 DEF PR!PowerOff
  <2>2. NoReset
    BY <1>1, <2>1, ResettingIsAReset
  <2>3. PR!Contents' = PR!Contents
    BY <2>1 DEF PR!Contents
  <2> QED
    BY <1>1, <1>3, <2>1, <2>2, <2>3, StillGoesWell DEF CredentialsGoWell
<1>7. ASSUME NEW k \in DOMAIN PR!build.props, NEW v \in Values, PR!SetProperty(k, v)
      PROVE  CredentialsGoWell'
  <2>1. PR!Setter(k, v) \in Seq(Apart)
    BY <1>1, SetterIsApart DEF ForGoodInv
  <2> QED
    BY <1>1, <1>3, <1>7, <2>1, BeginKeepsNetwork DEF PR!SetProperty, PR!Threads
<1>8. ASSUME NEW k \in PR!CoreProps, NEW v \in Values, PR!SetCoreProperty(k, v)
      PROVE  CredentialsGoWell'
  <2>1. k = "s_id"
    BY <1>8 DEF PR!SetCoreProperty
  <2>2. v \in Int
    BY PR!PropertiesAssumption DEF PR!PropertiesAssumption
  <2>3. PR!KeepKey(k, v) \in Apart
    BY <2>1, <2>2 DEF Apart, Plain, Names, PR!KeepKey, PR!NetKeys
  <2>4. PR!CoreSetter(k, v) \in Seq(Apart)
    BY <2>3 DEF PR!CoreSetter
  <2> QED
    BY <1>1, <1>3, <1>8, <2>4, BeginKeepsNetwork DEF PR!SetCoreProperty, PR!Threads
<1>9. ASSUME NEW v \in Values, PR!RemoteStores(v) PROVE CredentialsGoWell'
  <2>1. [i \in DOMAIN PR!build.remote |->
           PR!PutKey(PR!build.remote[i], PR!Printed(PR!build.remote[i], v))] \in Seq(Apart)
    BY <1>1, RemoteIsApart DEF ForGoodInv
  <2> QED
    BY <1>1, <1>3, <1>9, <2>1, BeginKeepsNetwork DEF PR!RemoteStores, PR!Threads
<1>10. ASSUME NEW t \in PR!Threads, PR!Reset(t) PROVE CredentialsGoWell'
  BY <1>1, <1>3, <1>10, ResetBeginsWell
<1>11. ASSUME NEW mode \in {PR!AP, PR!STA}, PR!ChooseMode(mode) PROVE CredentialsGoWell'
  <2>1. Bare(PR!Contents) => ProvisionGoesWell(<<PR!PutKey("wifi_mode", mode)>>, PR!Contents)
    BY DEF ProvisionGoesWell
  <2> QED
    BY <1>1, <1>3, <1>11, <2>1, ProvisionBeginsWell DEF PR!ChooseMode
<1>12. ASSUME NEW v \in Values, PR!ReceiveCredentials(v) PROVE CredentialsGoWell'
  <2>1. Bare(PR!Contents) => ProvisionGoesWell(PR!Credentials(v), PR!Contents)
    BY DEF ProvisionGoesWell, PR!Credentials
  <2> QED
    BY <1>1, <1>3, <1>12, <2>1, ProvisionBeginsWell DEF PR!ReceiveCredentials
<1>13. ASSUME NEW t \in PR!Threads, PR!Statement(t) PROVE CredentialsGoWell'
  BY <1>1, <1>3, <1>13, StatementKeepsNetwork
<1>14. CASE PR!FilesUpdated
  <2>1. PICK id \in {PR!Default, 1} : PR!Begin("httpd", <<PR!PutKey("s_id", id)>>)
    BY <1>14 DEF PR!FilesUpdated
  <2>2. PR!PutKey("s_id", id) \in Apart
    BY DEF Apart, Plain, Names, PR!PutKey, PR!NetKeys, PR!Default
  <2>3. <<PR!PutKey("s_id", id)>> \in Seq(Apart)
    BY <2>2
  <2> QED
    BY <1>1, <1>3, <2>1, <2>3, BeginKeepsNetwork DEF PR!Threads
<1> QED
  BY <1>4, <1>5, <1>6, <1>7, <1>8, <1>9, <1>10, <1>11, <1>12, <1>13, <1>14 DEF PR!Next

\* A station that counts as provided has a name and a password of one message,
\* wherever power went while they were stored, in every build and with handlers
\* of the other threads between any two of the writes.
THEOREM ProvidedStationIsWhole ==
    ASSUME PR!PropertiesAssumption, PR!TablesAssumption
    PROVE  PR!Spec => []ProvidedIsWhole
<1>1. PR!Init => NetInv
  <2> SUFFICES ASSUME PR!Init PROVE NetInv
    OBVIOUS
  <2>1. ForGoodInv /\ todo = PR!Idle
    BY ForGoodAtFirst DEF PR!Init
  <2>2. \A t \in PR!Threads : todo[t] = << >>
    BY <2>1 DEF PR!Idle
  <2>3. << >> \notin Resets /\ << >> \in Seq(Apart)
    BY ResetGoesOn
  <2>4. store = "nvs" /\ torn = FALSE /\ failed = FALSE
    BY DEF PR!Init
  <2>5. Steady(PR!Contents)
    BY <2>4 DEF PR!Init, PR!Contents, PR!Nothing, PR!Keys, PR!NetKeys, Steady
  <2>6. ProvisionGoesWell(todo["provision"], PR!Contents)
    BY <2>2 DEF ProvisionGoesWell, PR!Threads
  <2> QED
    BY <2>1, <2>2, <2>3, <2>4, <2>5, <2>6 DEF NetInv, CredentialsGoWell
<1>2. NetInv /\ [PR!Next]_(PR!vars) => NetInv'
  BY PR!PropertiesAssumption, PR!TablesAssumption, NetInvIsInductive
<1>3. NetInv => ProvidedIsWhole
  <2> SUFFICES ASSUME NetInv, ~failed, ~torn, ~PR!Resetting, PR!IsWifiProvided,
                      PR!WifiMode = PR!STA
               PROVE  PR!HasKey("sta_ssid") /\ PR!Contents["sta_pass"] = PR!Contents["sta_ssid"]
    BY DEF ProvidedIsWhole, PR!ProvidedIsWhole
  <2>1. Steady(PR!Contents)
    BY ResettingIsAReset DEF NetInv, CredentialsGoWell
  <2>2. PR!Contents["wifi_mode"] # PR!AP
    BY DEF PR!IsWifiProvided, PR!WifiMode, PR!HasKey, PR!AP, PR!STA
  <2> QED
    BY <2>1, <2>2 DEF Steady, PR!IsWifiProvided, PR!HasKey
<1> QED
  BY PR!PropertiesAssumption, PR!TablesAssumption, <1>1, <1>2, <1>3, PTL DEF PR!Spec

(***************************************************************************)
(* What the box shows. A handler of the http server that changes a property *)
(* tells the objects first and stores last; until then the box is ahead of  *)
(* the storage, for this property only. What everyone else stores or erases *)
(* puts the setting behind the box, and so does a write that is refused.    *)
(* What is stored has the digits that can be stored, so that a restart      *)
(* shows the same.                                                         *)
(***************************************************************************)
Foreign == {s \in Plain : s.op = "put" /\ PR!Printed(s.on, s.val) = s.val}

\* What is left of a setter: fields to tell, and then the storage.
SetterLeft(left, k, v) ==
  /\ left \in Seq(Plain) /\ left # << >>
  /\ left[Len(left)] = PR!KeepKey(k, v)
  /\ \A i \in 1 .. Len(left) - 1 : left[i].op = "field"

\* The box b is ahead of the storage.
Ahead(left, b, k) == b[k] \in Values /\ SetterLeft(left, k, PR!Printed(k, b[k]))

OthersAreForeign(d) == \A t \in PR!Threads \ {"httpd"} : d[t] \in Seq(Foreign) \cup Resets
HttpdGoesWell(left, b) ==
  left \in Seq(Foreign) \cup Resets \/ \E k \in PR!Props : Ahead(left, b, k)
Digits(c) == \A k \in PR!Props : c[k] = PR!Missing \/ PR!Printed(k, c[k]) = c[k]
Reads(c, k) == IF c[k] = PR!Missing THEN PR!Default ELSE c[k]
BoxIsTrue(left, b, c, off) ==
  \A k \in PR!Kept \ off : PR!Shows(k, b[k], Reads(c, k)) \/ Ahead(left, b, k)

ShownInv ==
  /\ ForGoodInv
  /\ PR!Props \subseteq DOMAIN nvs \cap DOMAIN ram \cap DOMAIN box
  /\ OthersAreForeign(todo)
  /\ HttpdGoesWell(todo["httpd"], box)
  /\ Digits(nvs) /\ Digits(ram)
  /\ phase # "off" => BoxIsTrue(todo["httpd"], box, PR!Contents, behind)

\* A step does not change the build; what it does change makes the invariant.
LEMMA ShownNext ==
    ASSUME ShownInv, ForGoodInv', project' = project,
           PR!Props \subseteq DOMAIN nvs' \cap DOMAIN ram' \cap DOMAIN box',
           OthersAreForeign(todo'), HttpdGoesWell(todo'["httpd"], box'),
           Digits(nvs'), Digits(ram'),
           phase' # "off" => BoxIsTrue(todo'["httpd"], box', PR!Contents', behind')
    PROVE  ShownInv'
<1>1. PR!build' = PR!build
  BY DEF PR!build
<1>2. PR!Kept' = PR!Kept /\ PR!Props' = PR!Props
  BY <1>1 DEF PR!Kept, PR!Props, PR!CoreProps
<1>3. Foreign' = Foreign
  BY <1>1 DEF Foreign, PR!Printed, PR!SixDigits, Plain, Names, PR!NetKeys
<1>4. \A k : PR!Printed(k, box[k])' = PR!Printed(k, box'[k])
  BY <1>1 DEF PR!Printed, PR!SixDigits
<1>5. \A k : Ahead(todo["httpd"], box, k)' <=> Ahead(todo'["httpd"], box', k)
  BY <1>4 DEF Ahead, SetterLeft, Plain, Names, PR!NetKeys, PR!KeepKey
<1>6. OthersAreForeign(todo)'
  BY <1>3 DEF OthersAreForeign, PR!Threads
<1>7. HttpdGoesWell(todo["httpd"], box)'
  BY <1>2, <1>3, <1>5 DEF HttpdGoesWell
<1>8. Digits(nvs)' /\ Digits(ram)'
  BY <1>1, <1>2 DEF Digits, PR!Printed, PR!SixDigits, PR!Missing
<1>9. phase' # "off" => BoxIsTrue(todo["httpd"], box, PR!Contents, behind)'
  <2> SUFFICES ASSUME phase' # "off",
                      BoxIsTrue(todo'["httpd"], box', PR!Contents', behind')
               PROVE  BoxIsTrue(todo["httpd"], box, PR!Contents, behind)'
    OBVIOUS
  <2>1. \A k : Reads(PR!Contents, k)' = Reads(PR!Contents', k)
    BY DEF Reads, PR!Missing, PR!Default
  <2>2. \A k : PR!Shows(k, box[k], Reads(PR!Contents, k))'
                 <=> PR!Shows(k, box'[k], Reads(PR!Contents', k))
    BY <1>1, <2>1 DEF PR!Shows, PR!IsCut, PR!Whole, PR!Printed, PR!SixDigits
  <2> QED
    BY <1>2, <1>5, <2>2 DEF BoxIsTrue
<1> QED
  BY <1>1, <1>2, <1>6, <1>7, <1>8, <1>9 DEF ShownInv

\* No build has a key or a property of its own under the keys every box has.
LEMMA KeysAreApart ==
    ASSUME PR!TablesAssumption, project \in Projects
    PROVE  /\ DOMAIN PR!build.keys \cap (PR!NetKeys \cup {"s_id"}) = {}
           /\ DOMAIN PR!build.props \subseteq STRING \cap DOMAIN PR!build.keys
           /\ PR!build.props \in [DOMAIN PR!build.props -> Seq(STRING)]
           /\ PR!Kept \subseteq PR!Props /\ PR!Props \subseteq PR!Keys /\ PR!Props \subseteq Names
           /\ \A k \in PR!NetKeys \cup {"s_id"} : \A v : PR!Printed(k, v) = v
<1>1. /\ DOMAIN PR!build.keys \cap (PR!NetKeys \cup {"s_id"}) = {}
      /\ DOMAIN PR!build.props \subseteq STRING \cap DOMAIN PR!build.keys
      /\ PR!build.props \in [DOMAIN PR!build.props -> Seq(STRING)]
  BY PR!TablesAssumption DEF PR!TablesAssumption, PR!build
<1> QED
  BY <1>1 DEF PR!Kept, PR!Props, PR!CoreProps, PR!Keys, PR!NetKeys, PR!Printed, Names

LEMMA ForeignIsPlain == Seq(Foreign) \subseteq Seq(Plain)
<1>1. Foreign \subseteq Plain
  BY DEF Foreign
<1> QED
  BY <1>1, SeqMonotonic

\* What others do, and resets, leave no property ahead of the storage.
LEMMA ForeignIsNotAhead ==
    ASSUME NEW left \in Seq(Foreign) \cup Resets, NEW b, NEW k
    PROVE  ~Ahead(left, b, k)
<1> SUFFICES ASSUME Ahead(left, b, k) PROVE FALSE
  OBVIOUS
<1>1. /\ left \in Seq(Plain) /\ left # << >>
      /\ left[Len(left)] = PR!KeepKey(k, PR!Printed(k, b[k]))
  BY DEF Ahead, SetterLeft
<1>2. left \in Seq(Foreign)
  BY <1>1, PlainIsNoReset
<1>3. Len(left) \in Nat \ {0}
  BY <1>2, <1>1, EmptySeq
<1>4. left[Len(left)] \in Foreign
  BY <1>2, <1>3, ElementOfSeq
<1> QED
  BY <1>1, <1>4 DEF Foreign, PR!KeepKey

\* What can be stored once can be stored again, and is stored then.
LEMMA PrintedIsShort ==
    ASSUME PR!PropertiesAssumption, NEW k, NEW v \in Values
    PROVE  /\ PR!Printed(k, PR!Printed(k, v)) = PR!Printed(k, v)
           /\ PR!Printed(k, v) # PR!Missing
<1>1. v \in Nat
  BY PR!PropertiesAssumption DEF PR!PropertiesAssumption
<1>2. PR!SixDigits(PR!SixDigits(v)) = PR!SixDigits(v) /\ PR!SixDigits(v) # -1
  BY <1>1 DEF PR!SixDigits
<1> QED
  BY <1>1, <1>2 DEF PR!Printed, PR!Missing

\* The handler of another thread, or one of http that is no setter, begins.
LEMMA ForeignBegins ==
    ASSUME ShownInv, ForGoodInv', NEW t \in PR!Threads,
           NEW stmts \in Seq(Foreign) \cup Resets, PR!Begin(t, stmts), phase # "off",
           box' = box
    PROVE  ShownInv'
<1>1. /\ todo' = [todo EXCEPT ![t] = stmts] /\ todo[t] = << >>
      /\ UNCHANGED <<project, phase, nvs, ram, store, behind>>
  BY DEF PR!Begin
<1>2. todo'[t] = stmts /\ \A u \in PR!Threads : u # t => todo'[u] = todo[u]
  BY <1>1 DEF ShownInv, ForGoodInv
<1>3. "httpd" \in PR!Threads /\ << >> \in Seq(Foreign)
  BY DEF PR!Threads
<1>4. OthersAreForeign(todo')
  BY <1>2 DEF ShownInv, OthersAreForeign
<1>5. \A k : Ahead(todo["httpd"], box, k) <=> Ahead(todo'["httpd"], box', k)
  <2>1. CASE t = "httpd"
    BY <1>1, <1>2, <1>3, <2>1, ForeignIsNotAhead
  <2>2. CASE t # "httpd"
    BY <1>2, <1>3, <2>2
  <2> QED
    BY <2>1, <2>2
<1>6. HttpdGoesWell(todo'["httpd"], box')
  BY <1>2, <1>3, <1>5 DEF ShownInv, HttpdGoesWell
<1>7. PR!Contents' = PR!Contents
  BY <1>1 DEF PR!Contents
<1>8. phase' # "off" => BoxIsTrue(todo'["httpd"], box', PR!Contents', behind')
  BY <1>1, <1>5, <1>7 DEF ShownInv, BoxIsTrue
<1> QED
  BY <1>1, <1>4, <1>6, <1>8, ShownNext DEF ShownInv

\* A property is set: the box shows the value, which is still to be stored.
LEMMA BoxIsTold ==
    ASSUME PR!TablesAssumption, ShownInv, ForGoodInv', NEW k \in PR!Props, NEW v \in Values,
           NEW stmts, SetterLeft(stmts, k, PR!Printed(k, v)), PR!Begin("httpd", stmts),
           phase # "off", box' = [box EXCEPT ![k] = v]
    PROVE  ShownInv'
<1>1. /\ todo["httpd"] = << >> /\ todo' = [todo EXCEPT !["httpd"] = stmts]
      /\ UNCHANGED <<project, phase, nvs, ram, store, behind>>
  BY DEF PR!Begin
<1>2. /\ todo'["httpd"] = stmts
      /\ \A u \in PR!Threads : u # "httpd" => todo'[u] = todo[u]
  BY <1>1 DEF ShownInv, ForGoodInv, PR!Threads
<1>3. PR!Kept \subseteq PR!Props
  BY KeysAreApart DEF ShownInv, ForGoodInv
<1>4. DOMAIN box' = DOMAIN box /\ box'[k] = v /\ \A u \in PR!Props : u # k => box'[u] = box[u]
  BY DEF ShownInv
<1>5. Ahead(todo'["httpd"], box', k)
  BY <1>2, <1>4 DEF Ahead
<1>6. OthersAreForeign(todo') /\ HttpdGoesWell(todo'["httpd"], box')
  BY <1>2, <1>5 DEF ShownInv, OthersAreForeign, HttpdGoesWell
<1>7. Digits(nvs') /\ Digits(ram')
  BY <1>1 DEF ShownInv
<1>8. BoxIsTrue(todo'["httpd"], box', PR!Contents', behind')
  <2>1. PR!Contents' = PR!Contents
    BY <1>1 DEF PR!Contents
  <2>2. \A u \in PR!Kept : ~Ahead(todo["httpd"], box, u)
    BY <1>1 DEF Ahead, SetterLeft
  <2>3. \A u \in PR!Kept \ behind : PR!Shows(u, box[u], Reads(PR!Contents, u))
    BY <2>2 DEF ShownInv, BoxIsTrue
  <2> QED
    BY <1>1, <1>3, <1>4, <1>5, <2>1, <2>3 DEF BoxIsTrue
<1> QED
  BY <1>1, <1>4, <1>6, <1>7, <1>8, ShownNext DEF ShownInv

\* What a write does to the contents.
LEMMA WriteTakesAway ==
    ASSUME ShownInv, NEW k, NEW v, PR!WriteStorage(k, v), store' = store,
           v = PR!Missing \/ PR!Printed(k, v) = v
    PROVE  /\ DOMAIN nvs' = DOMAIN nvs /\ DOMAIN ram' = DOMAIN ram
           /\ Digits(nvs') /\ Digits(ram')
           /\ \A u \in PR!Props : u # k => PR!Contents'[u] = PR!Contents[u]
           /\ k \in PR!Props => PR!Contents'[k] = v
<1>1. CASE store = "nvs"
  <2>1. nvs' = [nvs EXCEPT ![k] = v] /\ ram' = ram
    BY <1>1 DEF PR!WriteStorage
  <2>2. Digits(nvs') /\ Digits(ram')
    BY <2>1 DEF ShownInv, Digits
  <2> QED
    BY <1>1, <2>1, <2>2 DEF ShownInv, PR!Contents
<1>2. CASE store # "nvs"
  <2>1. ram' = [ram EXCEPT ![k] = v] /\ nvs' = nvs
    BY <1>2 DEF PR!WriteStorage
  <2>2. Digits(nvs') /\ Digits(ram')
    BY <2>1 DEF ShownInv, Digits
  <2> QED
    BY <1>2, <2>1, <2>2 DEF ShownInv, PR!Contents
<1> QED
  BY <1>1, <1>2

\* A statement that is no setter's: what it stores or erases is behind the box then.
LEMMA ForeignStatement ==
    ASSUME PR!TablesAssumption, ShownInv, ForGoodInv', NEW t \in PR!Threads,
           PR!Statement(t), todo[t] \in Seq(Foreign) \cup Resets
    PROVE  ShownInv'
<1> DEFINE s == Head(todo[t])
<1>1. /\ todo[t] # << >> /\ todo' = [todo EXCEPT ![t] = Tail(@)]
      /\ UNCHANGED <<project, phase, store, box>>
  BY DEF PR!Statement
<1>2. /\ Tail(todo[t]) \in Seq(Foreign) \cup Resets
      /\ s.op \in {"put", "erase"}
      /\ s.val = PR!Missing \/ PR!Printed(s.on, s.val) = s.val
  <2>1. CASE todo[t] \in Seq(Foreign)
    <3>1. s \in Foreign /\ Tail(todo[t]) \in Seq(Foreign)
      BY <1>1, <2>1, HeadTailProperties
    <3> QED
      BY <3>1 DEF Foreign
  <2>2. CASE todo[t] \in Resets
    <3>1. << >> \in Seq(Foreign)
      OBVIOUS
    <3> QED
      BY <2>2, <3>1, ResetGoesOn
  <2> QED
    BY <2>1, <2>2
<1>3. \/ PR!WriteStorage(s.on, s.val) /\ behind' = behind \cup ({s.on} \cap PR!Props)
      \/ UNCHANGED <<nvs, ram, behind>>
  <2> HIDE DEF s
  <2>1. s.op # "field" /\ s.op # "keep"
    BY <1>2
  <2> QED
    BY <2>1 DEF PR!Statement, s
<1> HIDE DEF s
<1>4. phase # "off"
  BY <1>1 DEF ShownInv, ForGoodInv, PR!Idle
<1>5. todo'[t] = Tail(todo[t]) /\ \A u \in PR!Threads : u # t => todo'[u] = todo[u]
  BY <1>1 DEF ShownInv, ForGoodInv
<1>6. OthersAreForeign(todo')
  BY <1>2, <1>5 DEF ShownInv, OthersAreForeign
<1>7. "httpd" \in PR!Threads
  BY DEF PR!Threads
<1>8. \A k : Ahead(todo["httpd"], box, k) <=> Ahead(todo'["httpd"], box', k)
  <2>1. CASE t = "httpd"
    BY <1>2, <1>5, <2>1, ForeignIsNotAhead
  <2>2. CASE t # "httpd"
    BY <1>1, <1>5, <1>7, <2>2
  <2> QED
    BY <2>1, <2>2
<1>9. HttpdGoesWell(todo'["httpd"], box')
  BY <1>2, <1>5, <1>7, <1>8 DEF ShownInv, HttpdGoesWell
<1>10. /\ DOMAIN nvs' = DOMAIN nvs /\ DOMAIN ram' = DOMAIN ram
       /\ Digits(nvs') /\ Digits(ram')
       /\ behind \subseteq behind'
       /\ \A u \in PR!Props \ behind' : PR!Contents'[u] = PR!Contents[u]
  <2>1. CASE PR!WriteStorage(s.on, s.val) /\ behind' = behind \cup ({s.on} \cap PR!Props)
    BY <1>1, <1>2, <2>1, WriteTakesAway
  <2>2. CASE UNCHANGED <<nvs, ram, behind>>
    BY <1>1, <2>2 DEF ShownInv, PR!Contents
  <2> QED
    BY <1>3, <2>1, <2>2
<1>11. PR!Kept \subseteq PR!Props
  BY KeysAreApart DEF ShownInv, ForGoodInv
<1>12. BoxIsTrue(todo'["httpd"], box', PR!Contents', behind')
  <2> SUFFICES ASSUME NEW k \in PR!Kept \ behind'
               PROVE  PR!Shows(k, box[k], Reads(PR!Contents', k)) \/ Ahead(todo'["httpd"], box', k)
    BY <1>1 DEF BoxIsTrue
  <2>1. k \in PR!Kept \ behind /\ Reads(PR!Contents', k) = Reads(PR!Contents, k)
    BY <1>10, <1>11 DEF Reads
  <2>2. PR!Shows(k, box[k], Reads(PR!Contents, k)) \/ Ahead(todo["httpd"], box, k)
    BY <1>4, <2>1 DEF ShownInv, BoxIsTrue
  <2> QED
    BY <1>8, <2>1, <2>2
<1> QED
  BY <1>1, <1>6, <1>9, <1>10, <1>12, ShownNext DEF ShownInv

\* The rest of a setter, after a field.
LEMMA SetterGoesOn ==
    ASSUME NEW left, NEW k, NEW v, SetterLeft(left, k, v)
    PROVE  \/ Head(left).op = "field" /\ SetterLeft(Tail(left), k, v)
           \/ Head(left) = PR!KeepKey(k, v) /\ Tail(left) = << >>
<1>1. left \in Seq(Plain) /\ left # << >> /\ Len(left) \in Nat \ {0}
  BY EmptySeq DEF SetterLeft
<1>2. /\ Tail(left) \in Seq(Plain) /\ Len(Tail(left)) = Len(left) - 1
      /\ \A i \in 1 .. Len(Tail(left)) : Tail(left)[i] = left[i + 1]
      /\ Head(left) = left[1]
  BY <1>1, HeadTailProperties
<1>3. CASE Len(left) = 1
  <2>1. Tail(left) \in Seq(Plain) /\ Len(Tail(left)) = 0
    BY <1>2, <1>3
  <2>2. Tail(left) = << >>
    BY <2>1, EmptySeq
  <2> QED
    BY <1>2, <1>3, <2>2 DEF SetterLeft
<1>4. CASE Len(left) # 1
  <2>1. Head(left).op = "field"
    BY <1>1, <1>2, <1>4 DEF SetterLeft
  <2>2. Tail(left) # << >>
    <3>1. Len(Tail(left)) # 0
      BY <1>1, <1>2, <1>4
    <3>2. Len(<< >>) = 0
      BY EmptySeq
    <3> QED
      BY <3>1, <3>2
  <2>3. Tail(left)[Len(Tail(left))] = PR!KeepKey(k, v)
    BY <1>1, <1>2, <1>4 DEF SetterLeft
  <2>4. \A i \in 1 .. Len(Tail(left)) - 1 : Tail(left)[i].op = "field"
    BY <1>1, <1>2, <1>4 DEF SetterLeft
  <2> QED
    BY <1>2, <2>1, <2>2, <2>3, <2>4 DEF SetterLeft
<1> QED
  BY <1>3, <1>4

\* A setter that begins has the field and then the key before it.
LEMMA SetterIsLeft ==
    ASSUME PR!PropertiesAssumption, PR!TablesAssumption, project \in Projects,
           NEW k \in DOMAIN PR!build.props, NEW v \in Values
    PROVE  SetterLeft(PR!Setter(k, v), k, PR!Printed(k, v))
<1> DEFINE fields == PR!build.props[k]
           sets == [i \in DOMAIN fields |-> PR!SetField(fields[i], v)]
           keep == <<PR!KeepKey(k, PR!Printed(k, v))>>
<1>1. fields \in Seq(STRING) /\ k \in STRING /\ v \in Int
  BY KeysAreApart, PR!PropertiesAssumption DEF PR!PropertiesAssumption
<1>2. sets \in Seq(Plain) /\ \A i \in DOMAIN fields : sets[i].op = "field"
  BY <1>1, FieldsArePlain DEF PR!SetField
<1>3. DOMAIN sets = 1 .. Len(sets) /\ DOMAIN fields = DOMAIN sets /\ Len(sets) \in Nat
  BY <1>2, LenProperties
<1>4. keep \in Seq(Plain) /\ Len(keep) = 1 /\ keep[1] = PR!KeepKey(k, PR!Printed(k, v))
  <2>1. PR!Printed(k, v) \in Int
    BY <1>1, PrintedIsInt
  <2>2. PR!KeepKey(k, PR!Printed(k, v)) \in Plain
    BY <1>1, <2>1, KeepIsPlain DEF Names
  <2> QED
    BY <2>2, OneIsPlain
<1>5. PR!Setter(k, v) = sets \o keep
  BY DEF PR!Setter
<1> HIDE DEF sets, keep, fields
<1>6. /\ PR!Setter(k, v) \in Seq(Plain) /\ Len(PR!Setter(k, v)) = Len(sets) + 1
      /\ \A i \in 1 .. Len(sets) : PR!Setter(k, v)[i] = sets[i]
      /\ PR!Setter(k, v)[Len(sets) + 1] = keep[1]
  <2>1. /\ sets \o keep \in Seq(Plain) /\ Len(sets \o keep) = Len(sets) + Len(keep)
        /\ \A i \in 1 .. Len(sets) + Len(keep) :
              (sets \o keep)[i] = IF i <= Len(sets) THEN sets[i] ELSE keep[i - Len(sets)]
    BY <1>2, <1>4, ConcatProperties
  <2>2. (sets \o keep)[Len(sets) + 1] = keep[1]
    BY <1>3, <1>4, <2>1
  <2> QED
    BY <1>3, <1>4, <1>5, <2>1, <2>2
<1>7. PR!Setter(k, v) # << >>
  BY <1>3, <1>6, EmptySeq
<1> QED
  BY <1>2, <1>3, <1>4, <1>6, <1>7 DEF SetterLeft

\* So has the one of a property that every box has.
LEMMA CoreSetterIsLeft ==
    ASSUME PR!PropertiesAssumption, PR!TablesAssumption, project \in Projects,
           NEW k \in PR!CoreProps, NEW v \in Values
    PROVE  SetterLeft(PR!CoreSetter(k, v), k, PR!Printed(k, v))
<1>1. k \in PR!NetKeys \cup {"s_id"}
  BY DEF PR!CoreProps, PR!NetKeys
<1>2. v \in Int /\ k \in Names
  BY <1>1, PR!PropertiesAssumption DEF PR!PropertiesAssumption, Names
<1>3. PR!Printed(k, v) = v
  BY <1>1, KeysAreApart
<1>4. PR!KeepKey(k, v) \in Plain
  BY <1>2, KeepIsPlain
<1>5. <<PR!KeepKey(k, v)>> \in Seq(Plain) /\ Len(<<PR!KeepKey(k, v)>>) = 1
      /\ <<PR!KeepKey(k, v)>>[1] = PR!KeepKey(k, v) /\ <<PR!KeepKey(k, v)>> # << >>
  BY <1>4, OneIsPlain
<1> QED
  BY <1>3, <1>5 DEF SetterLeft, PR!CoreSetter

\* A setter goes on, and at last it stores what the box shows, or the write is refused.
LEMMA AheadStatement ==
    ASSUME PR!PropertiesAssumption, PR!TablesAssumption, ShownInv, ForGoodInv',
           PR!Statement("httpd"), NEW k \in PR!Props, Ahead(todo["httpd"], box, k)
    PROVE  ShownInv'
<1> DEFINE left == todo["httpd"]
           v == PR!Printed(k, box[k])
<1>1. /\ left # << >> /\ todo' = [todo EXCEPT !["httpd"] = Tail(@)]
      /\ UNCHANGED <<project, phase, store, box>>
  BY DEF PR!Statement
<1>2. phase # "off"
  BY <1>1 DEF ShownInv, ForGoodInv, PR!Idle, PR!Threads
<1>3. /\ todo'["httpd"] = Tail(left)
      /\ \A u \in PR!Threads : u # "httpd" => todo'[u] = todo[u]
  BY <1>1 DEF ShownInv, ForGoodInv, PR!Threads
<1>4. OthersAreForeign(todo')
  BY <1>3 DEF ShownInv, OthersAreForeign
<1>5. PR!Kept \subseteq PR!Props
  BY KeysAreApart DEF ShownInv, ForGoodInv
<1>6. /\ v # PR!Missing /\ PR!Printed(k, v) = v
      /\ SetterLeft(left, k, v) /\ box[k] \in Values
  BY PrintedIsShort DEF Ahead
<1>7. \A u \in PR!Kept : u # k => ~Ahead(left, box, u)
  <2> SUFFICES ASSUME NEW u \in PR!Kept, u # k, Ahead(left, box, u) PROVE FALSE
    OBVIOUS
  <2>1. left[Len(left)].on = u /\ left[Len(left)].on = k
    BY <1>6 DEF Ahead, SetterLeft, PR!KeepKey
  <2> QED
    BY <2>1
<1>8. CASE Head(left).op = "field"
  <2>1. UNCHANGED <<nvs, ram, behind>>
    BY <1>8 DEF PR!Statement
  <2>2. SetterLeft(Tail(left), k, v)
    BY <1>6, <1>8, SetterGoesOn DEF PR!KeepKey
  <2>3. Ahead(todo'["httpd"], box', k)
    BY <1>1, <1>3, <1>6, <2>2 DEF Ahead
  <2>4. HttpdGoesWell(todo'["httpd"], box')
    BY <2>3 DEF HttpdGoesWell
  <2>5. PR!Contents' = PR!Contents
    BY <1>1, <2>1 DEF PR!Contents
  <2>6. BoxIsTrue(todo'["httpd"], box', PR!Contents', behind')
    BY <1>1, <1>2, <1>7, <2>1, <2>3, <2>5 DEF ShownInv, BoxIsTrue
  <2> QED
    BY <1>1, <1>4, <2>1, <2>4, <2>6, ShownNext DEF ShownInv
<1>9. CASE Head(left).op # "field"
  <2>1. Head(left) = PR!KeepKey(k, v) /\ Tail(left) = << >>
    BY <1>6, <1>9, SetterGoesOn
  <2>2. HttpdGoesWell(todo'["httpd"], box')
    <3>1. << >> \in Seq(Foreign)
      OBVIOUS
    <3> QED
      BY <1>3, <2>1, <3>1 DEF HttpdGoesWell
  <2>3. \A u \in PR!Kept \ behind : u # k => PR!Shows(u, box[u], Reads(PR!Contents, u))
    BY <1>2, <1>7 DEF ShownInv, BoxIsTrue
  <2>4. \/ PR!WriteStorage(k, v) /\ behind' = behind \ {k}
        \/ UNCHANGED <<nvs, ram>> /\ behind' = behind \cup {k}
    <3> HIDE DEF v, left
    <3>1. /\ Head(left).op = "keep" /\ Head(left).on = k /\ Head(left).val = v
      BY <2>1 DEF PR!KeepKey
    <3> QED
      BY <3>1 DEF PR!Statement, left
  <2>5. CASE UNCHANGED <<nvs, ram>> /\ behind' = behind \cup {k}
    <3>1. PR!Contents' = PR!Contents
      BY <1>1, <2>5 DEF PR!Contents
    <3>2. BoxIsTrue(todo'["httpd"], box', PR!Contents', behind')
      BY <1>1, <2>3, <2>5, <3>1 DEF BoxIsTrue
    <3> QED
      BY <1>1, <1>4, <2>2, <2>5, <3>2, ShownNext DEF ShownInv
  <2>6. CASE PR!WriteStorage(k, v) /\ behind' = behind \ {k}
    <3>1. /\ DOMAIN nvs' = DOMAIN nvs /\ DOMAIN ram' = DOMAIN ram
          /\ Digits(nvs') /\ Digits(ram')
          /\ \A u \in PR!Props : u # k => PR!Contents'[u] = PR!Contents[u]
          /\ PR!Contents'[k] = v
      BY <1>1, <1>6, <2>6, WriteTakesAway
    <3>2. PR!Shows(k, box[k], Reads(PR!Contents', k))
      BY <1>6, <3>1 DEF Reads, PR!Shows
    <3>3. \A u \in PR!Kept : u # k => Reads(PR!Contents', u) = Reads(PR!Contents, u)
      BY <1>5, <3>1 DEF Reads
    <3>4. BoxIsTrue(todo'["httpd"], box', PR!Contents', behind')
      BY <1>1, <2>3, <2>6, <3>2, <3>3 DEF BoxIsTrue
    <3> QED
      BY <1>1, <1>4, <2>2, <3>1, <3>4, ShownNext DEF ShownInv
  <2> QED
    BY <2>4, <2>5, <2>6
<1> QED
  BY <1>8, <1>9

\* What a message stores has the digits that can be stored.
LEMMA RemoteIsForeign ==
    ASSUME PR!PropertiesAssumption, PR!TablesAssumption, project \in Projects,
           NEW v \in Values
    PROVE  [i \in DOMAIN PR!build.remote |->
              PR!PutKey(PR!build.remote[i], PR!Printed(PR!build.remote[i], v))] \in Seq(Foreign)
<1> DEFINE keys == PR!build.remote
<1>1. keys \in Seq(STRING)
  BY PR!TablesAssumption DEF PR!TablesAssumption, PR!build
<1>2. v \in Int
  BY PR!PropertiesAssumption DEF PR!PropertiesAssumption
<1>3. Len(keys) \in Nat /\ DOMAIN keys = 1 .. Len(keys)
  BY <1>1, LenProperties
<1>4. ASSUME NEW k \in STRING PROVE PR!PutKey(k, PR!Printed(k, v)) \in Foreign
  <2>1. PR!PutKey(k, PR!Printed(k, v)) \in Plain
    BY <1>2, PutIsPlain, PrintedIsInt DEF Names
  <2>2. PR!Printed(k, PR!Printed(k, v)) = PR!Printed(k, v)
    BY PrintedIsShort
  <2> QED
    BY <2>1, <2>2 DEF Foreign, PR!PutKey
<1>5. \A i \in 1 .. Len(keys) : PR!PutKey(keys[i], PR!Printed(keys[i], v)) \in Foreign
  BY <1>1, <1>3, <1>4, ElementOfSeq
<1> HIDE DEF keys
<1>6. [i \in DOMAIN keys |-> PR!PutKey(keys[i], PR!Printed(keys[i], v))] \in Seq(Foreign)
  BY <1>3, <1>5, SeqDef
<1> QED
  BY <1>6 DEF keys

\* What the box shows when the objects have started.
LEMMA BoxStartsTrue ==
    ASSUME PR!TablesAssumption, project \in Projects,
           NEW read, Digits(read), NEW fields, fields = PR!StartedHw(read),
           NEW b, b = PR!StartedBox(read, fields), NEW k \in PR!Kept
    PROVE  PR!Shows(k, b[k], Reads(read, k))
<1>1. k \in PR!Props
  BY KeysAreApart
<1>2. PR!Printed(k, Reads(read, k)) = Reads(read, k)
  BY <1>1 DEF Digits, Reads, PR!Default, PR!Missing, PR!Printed, PR!SixDigits
<1>3. CASE ~(k \in DOMAIN PR!build.props /\ PR!build.props[k] # << >>)
  BY <1>1, <1>2, <1>3 DEF PR!StartedBox, Reads, PR!Shows
<1>4. CASE k \in DOMAIN PR!build.props /\ PR!build.props[k] # << >>
  <2> DEFINE f == PR!build.props[k][1]
  <2>1. 1 \in DOMAIN PR!build.props[k]
    <3>1. PR!build.props[k] \in Seq(STRING)
      BY <1>4, KeysAreApart
    <3>2. Len(PR!build.props[k]) \in Nat \ {0}
      BY <1>4, <3>1, EmptySeq
    <3> QED
      BY <3>1, <3>2, LenProperties
  <2>2. f \in DOMAIN PR!build.start
    BY <1>4, <2>1 DEF PR!Kept
  <2>3. PR!build.start[f] = k
    BY <1>4, <2>2, PR!TablesAssumption DEF PR!TablesAssumption, PR!build
  <2>4. b[k] = fields[f]
    BY <1>1, <1>4 DEF PR!StartedBox
  <2>5. fields[f] = PR!Held(f, Reads(read, k))
    BY <2>2, <2>3 DEF PR!StartedHw, PR!Fields, Reads
  <2>6. CASE f \in PR!build.cut
    BY <1>4, <2>4, <2>5, <2>6 DEF PR!Held, PR!Shows, PR!IsCut
  <2>7. CASE f \notin PR!build.cut
    BY <1>2, <2>4, <2>5, <2>7 DEF PR!Held, PR!Shows
  <2> QED
    BY <2>6, <2>7
<1> QED
  BY <1>3, <1>4

\* There is nothing yet that has too many digits.
LEMMA NothingIsShort ==
    ASSUME PR!TablesAssumption, project \in Projects
    PROVE  Digits(PR!Nothing) /\ PR!Props \subseteq DOMAIN PR!Nothing
<1>1. PR!Props \subseteq PR!Keys
  BY KeysAreApart
<1> QED
  BY <1>1 DEF PR!Nothing, Digits

\* The box is ahead of the storage for the property whose setter runs, and for no other.
LEMMA ShownInvIsInductive ==
    ASSUME PR!PropertiesAssumption, PR!TablesAssumption, ShownInv, [PR!Next]_(PR!vars)
    PROVE  ShownInv'
<1>1. ForGoodInv /\ ForGoodInv' /\ project \in Projects
  BY ForGoodIsInductive DEF ShownInv, ForGoodInv
<1>2. project' = project
  BY DEF PR!Next, PR!vars, PR!PowerOn, PR!LeaveHwInit, PR!PowerOff, PR!SetProperty,
         PR!SetCoreProperty, PR!RemoteStores, PR!FilesUpdated, PR!Reset, PR!ChooseMode,
         PR!ReceiveCredentials, PR!Provisioned, PR!Statement, PR!Begin
<1>3. << >> \in Seq(Foreign) /\ PR!ClearWifi \in Resets
  BY DEF Resets
<1>4. ASSUME NEW k \in PR!NetKeys \cup {"s_id"}, NEW v \in Int
      PROVE  PR!PutKey(k, v) \in Foreign
  BY <1>1, KeysAreApart, PutIsPlain DEF Foreign, Names, PR!PutKey
<1>5. CASE PR!PowerOn
  <2> DEFINE read == IF store' = "nvs" THEN nvs ELSE PR!Nothing
  <2>1. /\ todo = PR!Idle /\ todo' = todo /\ nvs' = nvs /\ ram' = PR!Nothing
        /\ store' \in {"nvs", "ram"} /\ behind' = {}
        /\ hw' = PR!StartedHw(read) /\ box' = PR!StartedBox(read, hw')
    BY <1>1, <1>5 DEF PR!PowerOn, ForGoodInv
  <2>2. PR!Contents' = read
    BY <2>1 DEF PR!Contents
  <2>3. Digits(nvs') /\ Digits(ram') /\ Digits(read)
    BY <1>1, <2>1, NothingIsShort DEF ShownInv
  <2>4. PR!Props \subseteq DOMAIN nvs' \cap DOMAIN ram'
    BY <1>1, <2>1, NothingIsShort DEF ShownInv
  <2> HIDE DEF read
  <2>5. PR!Props \subseteq DOMAIN box'
    BY <2>1 DEF PR!StartedBox
  <2>6. \A k \in PR!Kept : PR!Shows(k, box'[k], Reads(read, k))
    BY <1>1, <2>1, <2>3, BoxStartsTrue
  <2>7. BoxIsTrue(todo'["httpd"], box', PR!Contents', behind')
    BY <2>1, <2>2, <2>6 DEF BoxIsTrue
  <2>8. OthersAreForeign(todo') /\ HttpdGoesWell(todo'["httpd"], box')
    BY <1>3, <2>1 DEF OthersAreForeign, HttpdGoesWell, PR!Idle, PR!Threads
  <2> QED
    BY <1>1, <1>2, <2>3, <2>4, <2>5, <2>7, <2>8, ShownNext DEF ShownInv
<1>6. CASE PR!PowerOff
  <2>1. /\ todo' = PR!Idle /\ phase' = "off" /\ UNCHANGED <<nvs, ram, box>>
    BY <1>6 DEF PR!PowerOff
  <2>2. OthersAreForeign(todo') /\ HttpdGoesWell(todo'["httpd"], box')
    BY <1>3, <2>1 DEF OthersAreForeign, HttpdGoesWell, PR!Idle, PR!Threads
  <2> QED
    BY <1>1, <1>2, <2>1, <2>2, ShownNext DEF ShownInv
<1>7. CASE UNCHANGED PR!vars \/ PR!LeaveHwInit \/ PR!Provisioned
  <2>1. /\ UNCHANGED <<project, nvs, ram, store, box, todo, behind>>
        /\ phase' # "off" => phase # "off"
    BY <1>7 DEF PR!vars, PR!LeaveHwInit, PR!Provisioned
  <2>2. PR!Contents' = PR!Contents
    BY <2>1 DEF PR!Contents
  <2> QED
    BY <1>1, <2>1, <2>2, ShownNext DEF ShownInv
<1>8. ASSUME NEW k \in DOMAIN PR!build.props, NEW v \in Values, PR!SetProperty(k, v)
      PROVE  ShownInv'
  <2>1. k \in PR!Props /\ SetterLeft(PR!Setter(k, v), k, PR!Printed(k, v))
    BY <1>1, SetterIsLeft DEF PR!Props
  <2> QED
    BY <1>1, <1>8, <2>1, BoxIsTold DEF PR!SetProperty
<1>9. ASSUME NEW k \in PR!CoreProps, NEW v \in Values, PR!SetCoreProperty(k, v)
      PROVE  ShownInv'
  <2>1. k \in PR!Props /\ SetterLeft(PR!CoreSetter(k, v), k, PR!Printed(k, v))
    BY <1>1, CoreSetterIsLeft DEF PR!Props
  <2> QED
    BY <1>1, <1>9, <2>1, BoxIsTold DEF PR!SetCoreProperty
<1>10. ASSUME NEW v \in Values, PR!RemoteStores(v) PROVE ShownInv'
  <2>1. [i \in DOMAIN PR!build.remote |->
           PR!PutKey(PR!build.remote[i], PR!Printed(PR!build.remote[i], v))] \in Seq(Foreign)
    BY <1>1, RemoteIsForeign
  <2> QED
    BY <1>1, <1>10, <2>1, ForeignBegins DEF PR!RemoteStores, PR!Threads
<1>11. CASE PR!FilesUpdated
  <2>1. PICK id \in {PR!Default, 1} : PR!Begin("httpd", <<PR!PutKey("s_id", id)>>)
    BY <1>11 DEF PR!FilesUpdated
  <2>2. PR!PutKey("s_id", id) \in Foreign
    BY <1>4 DEF PR!Default
  <2>3. <<PR!PutKey("s_id", id)>> \in Seq(Foreign)
    BY <2>2
  <2> QED
    BY <1>1, <1>11, <2>1, <2>3, ForeignBegins DEF PR!FilesUpdated, PR!Threads
<1>12. ASSUME NEW t \in PR!Threads, PR!Reset(t) PROVE ShownInv'
  BY <1>1, <1>3, <1>12, ForeignBegins DEF PR!Reset
<1>13. ASSUME NEW mode \in {PR!AP, PR!STA}, PR!ChooseMode(mode) PROVE ShownInv'
  <2>1. PR!PutKey("wifi_mode", mode) \in Foreign
    BY <1>4 DEF PR!NetKeys, PR!AP, PR!STA
  <2>2. <<PR!PutKey("wifi_mode", mode)>> \in Seq(Foreign)
    BY <2>1
  <2> QED
    BY <1>1, <1>13, <2>2, ForeignBegins DEF PR!ChooseMode, PR!Threads
<1>14. ASSUME NEW v \in Values, PR!ReceiveCredentials(v) PROVE ShownInv'
  <2>1. v \in Int /\ PR!AP \in Int /\ PR!STA \in Int
    BY PR!PropertiesAssumption DEF PR!PropertiesAssumption, PR!AP, PR!STA
  <2>2. /\ PR!PutKey("wifi_mode", PR!AP) \in Foreign /\ PR!PutKey("wifi_mode", PR!STA) \in Foreign
        /\ PR!PutKey("ap_ssid", v) \in Foreign /\ PR!PutKey("ap_pass", v) \in Foreign
        /\ PR!PutKey("sta_ssid", v) \in Foreign /\ PR!PutKey("sta_pass", v) \in Foreign
    BY <1>4, <2>1 DEF PR!NetKeys
  <2>3. PR!Credentials(v) \in Seq(Foreign)
    BY <2>2 DEF PR!Credentials
  <2> QED
    BY <1>1, <1>14, <2>3, ForeignBegins DEF PR!ReceiveCredentials, PR!Threads
<1>15. ASSUME NEW t \in PR!Threads, PR!Statement(t) PROVE ShownInv'
  <2>1. CASE todo[t] \in Seq(Foreign) \cup Resets
    BY <1>1, <1>15, <2>1, ForeignStatement
  <2>2. CASE todo[t] \notin Seq(Foreign) \cup Resets
    <3>1. t = "httpd" /\ \E k \in PR!Props : Ahead(todo["httpd"], box, k)
      BY <2>2 DEF ShownInv, OthersAreForeign, HttpdGoesWell
    <3> QED
      BY <1>1, <1>15, <3>1, AheadStatement
  <2> QED
    BY <2>1, <2>2
<1> QED
  BY <1>5, <1>6, <1>7, <1>8, <1>9, <1>10, <1>11, <1>12, <1>13, <1>14, <1>15 DEF PR!Next

\* What the box shows for a property is what is stored, to the digits that can be
\* stored, whenever no handler runs: in every build, over any number of handlers,
\* refused writes and restarts, but for the settings that others or a refused write
\* left behind the box and for the fractions that an object does not keep
\* (fb_project_maper_obj.cpp of the builds, fb_settings.cpp).
THEOREM BoxShowsWhatIsStored ==
    ASSUME PR!PropertiesAssumption, PR!TablesAssumption
    PROVE  PR!Spec => []ShownIsStored
<1>1. PR!Init => ShownInv
  <2> SUFFICES ASSUME PR!Init PROVE ShownInv
    OBVIOUS
  <2>1. ForGoodInv /\ todo = PR!Idle /\ nvs = PR!Nothing /\ ram = PR!Nothing /\ project \in Projects
    BY ForGoodAtFirst DEF PR!Init
  <2>2. << >> \in Seq(Foreign)
    OBVIOUS
  <2>3. PR!Props \subseteq DOMAIN PR!Nothing /\ Digits(nvs) /\ Digits(ram)
    BY <2>1, NothingIsShort
  <2>4. PR!Props \subseteq DOMAIN box
    BY DEF PR!Init, PR!StartedBox
  <2>5. OthersAreForeign(todo) /\ HttpdGoesWell(todo["httpd"], box)
    BY <2>1, <2>2 DEF OthersAreForeign, HttpdGoesWell, PR!Idle, PR!Threads
  <2>6. phase = "off"
    BY DEF PR!Init
  <2> QED
    BY <2>1, <2>3, <2>4, <2>5, <2>6 DEF ShownInv
<1>2. ShownInv /\ [PR!Next]_(PR!vars) => ShownInv'
  BY PR!PropertiesAssumption, PR!TablesAssumption, ShownInvIsInductive
<1>3. ShownInv => ShownIsStored
  <2> SUFFICES ASSUME ShownInv, PR!Quiet, NEW k \in PR!Kept \ behind
               PROVE  PR!Shows(k, box[k], PR!Setting(k))
    BY DEF ShownIsStored, PR!ShownIsStored
  <2>1. ~Ahead(todo["httpd"], box, k)
    BY DEF PR!Quiet, PR!Idle, PR!Threads, Ahead, SetterLeft
  <2>2. PR!Shows(k, box[k], Reads(PR!Contents, k))
    BY <2>1 DEF ShownInv, BoxIsTrue, PR!Quiet
  <2>3. PR!Setting(k) = Reads(PR!Contents, k)
    BY DEF Reads, PR!Setting, PR!HasKey
  <2> QED
    BY <2>2, <2>3
<1> QED
  BY PR!PropertiesAssumption, PR!TablesAssumption, <1>1, <1>2, <1>3, PTL DEF PR!Spec
=============================================================================
