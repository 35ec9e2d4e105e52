------------------------------- MODULE Update -------------------------------
(***************************************************************************)
(* Updates of the firmware and of the file system over http                *)
(* (main/fb_update.cpp, servers/fb_server_update.cpp): one upload at a     *)
(* time on the http server's task, writes that fail, clients that get      *)
(* lost, a restart when an update has ended, a start with RamStorage in    *)
(* place of nvs, and a loss of power at any moment.  The bytes of an       *)
(* upload are whole blocks here; Multipart is about how they are cut out   *)
(* of the request.                                                         *)
(***************************************************************************)
EXTENDS Naturals

CONSTANTS Blocks,     \* blocks of an image
          MaxUploads  \* bound: requests in all

UpdateAssumption == Blocks \in Nat \ {0} /\ MaxUploads \in Nat

Slots == 0..1       \* two partitions for the firmware, two for the file system
None == 2

VARIABLES
  \* flash
  app, boot,        \* content of the firmware partitions, the one to boot
  storage, spiffId, \* content of the file system partitions, the one to mount
  \* memory
  running,          \* the firmware that was booted
  mounted,          \* the file system that was mounted
  inFlash,          \* the settings are kept in nvs, not in RamStorage
  named,            \* settings::getSpiffId()
  working,          \* the state machine is in StateWork, not in StateProvision
  otaHndl, partition,  \* as in the code; partition is [kind, slot]
  upload,           \* the request being handled
  ended,            \* UPDATE END is in the event queue
  restarting,       \* global::restart() was called
  aborted,          \* an assert failed: what it was
  \* history
  uploads,          \* requests so far
  succeeded,        \* the last request that was answered with "Success"
  refused,          \* ... and the settings refused the number of its partition
  chosen            \* since spiffId was set by an update, the user set it, or an
                    \* update made while nvs was out of use erased its partition

flash == <<app, boot, storage, spiffId>>
memory == <<running, mounted, inFlash, named, working, otaHndl, partition, upload, ended, restarting, aborted>>
history == <<uploads, succeeded, refused, chosen>>
vars == <<flash, memory, history>>

Image(v, n) == [image |-> v, blocks |-> n]
Whole(content) == content.blocks = Blocks

NoPartition == [kind |-> "none", slot |-> None]
NoUpload == [kind |-> "none"]

Init ==
  /\ app = [s \in Slots |-> Image(0, Blocks)] /\ boot = 0
  /\ storage = [s \in Slots |-> Image(0, Blocks)] /\ spiffId = 0
  /\ running = 0 /\ mounted = 0 /\ inFlash = TRUE /\ named = 0 /\ working \in BOOLEAN
  /\ otaHndl = FALSE /\ partition = NoPartition /\ upload = NoUpload
  /\ ended = FALSE /\ restarting = FALSE /\ aborted = "no"
  /\ uploads = 0 /\ succeeded = 0 /\ refused = FALSE /\ chosen = FALSE

Alive == aborted = "no"

Request == Alive /\ upload = NoUpload /\ uploads < MaxUploads /\ uploads' = uploads + 1

Abort(what) ==
  /\ aborted' = what
  /\ UNCHANGED <<flash, running, mounted, inFlash, named, working, otaHndl, partition, upload, ended,
                 restarting, succeeded, refused, chosen>>

\* The handler goes on to the input of the file.
Accept(kind) ==
  /\ upload' = [kind |-> kind, image |-> uploads']
  /\ UNCHANGED <<running, mounted, inFlash, named, working, ended, restarting, aborted, boot, spiffId,
                 succeeded, refused>>

\* The handler answers with an error; what it has set so far stays.
Refuse ==
  UNCHANGED <<running, mounted, inFlash, named, working, upload, ended, restarting, aborted, boot,
              spiffId, succeeded, refused>>

-----------------------------------------------------------------------------
(* The firmware *)

\* Mutant: the slot that will not be booted next.
NextAppOfBoot == 1 - boot

\* esp_ota_get_next_update_partition(): the slot that is not running.
NextApp == 1 - running

\* begin() with its two asserts.
BeginOtaAsserts == Request /\ (otaHndl \/ partition # NoPartition) /\ Abort("handle is set")

\* esp_ota_begin() succeeds and gives up the content of the slot, or fails.
BeginOta ==
  /\ Request /\ ~otaHndl /\ partition = NoPartition
  /\ partition' = [kind |-> "app", slot |-> NextApp]
  /\ \/ /\ otaHndl' = TRUE /\ app' = [app EXCEPT ![NextApp] = Image(uploads', 0)]
        /\ Accept("app")
     \/ Refuse /\ UNCHANGED <<otaHndl, app>>
  /\ UNCHANGED <<storage, chosen>>

\* writeSequential() of the next block.
WriteOta ==
  /\ Alive /\ upload.kind = "app" /\ ~Whole(app[partition.slot])
  /\ app' = [app EXCEPT ![partition.slot].blocks = @ + 1]
  /\ UNCHANGED <<boot, storage, spiffId, memory, history>>

\* Mutant: "Success" before the slot is known to be selected.
EndOtaEarlyAnswer(ok) ==
  /\ Alive /\ upload.kind = "app" /\ Whole(app[partition.slot])
  /\ boot' = IF ok THEN partition.slot ELSE boot
  /\ ended' = (ended \/ ok) /\ succeeded' = upload.image
  /\ otaHndl' = FALSE /\ partition' = NoPartition /\ upload' = NoUpload
  /\ UNCHANGED <<app, storage, spiffId, running, mounted, inFlash, named, working, restarting, aborted,
                 uploads, refused, chosen>>

\* end(): the handles are given up whether or not the image passes esp_ota_end()
\* and is selected by esp_ota_set_boot_partition().
EndOta(ok) ==
  /\ Alive /\ upload.kind = "app" /\ Whole(app[partition.slot])
  /\ boot' = IF ok THEN partition.slot ELSE boot
  /\ ended' = (ended \/ ok) /\ succeeded' = IF ok THEN upload.image ELSE succeeded
  /\ otaHndl' = FALSE /\ partition' = NoPartition /\ upload' = NoUpload
  /\ UNCHANGED <<app, storage, spiffId, running, mounted, inFlash, named, working, restarting, aborted,
                 uploads, refused, chosen>>

-----------------------------------------------------------------------------
(* The file system *)

\* The partition that the settings do not name.
NextStorage == 1 - named

\* beginSpiff()
BeginSpiffAsserts == Request /\ partition # NoPartition /\ Abort("handle is set")

\* The whole partition is erased before anything is written; that may fail.
BeginSpiff ==
  /\ Request /\ partition = NoPartition
  /\ partition' = [kind |-> "storage", slot |-> NextStorage]
  /\ storage' = [storage EXCEPT ![NextStorage] = Image(uploads', 0)]
  /\ Accept("storage") \/ Refuse
  /\ chosen' = (chosen \/ NextStorage = spiffId)
  /\ UNCHANGED <<app, otaHndl>>

WriteSpiff ==
  /\ Alive /\ upload.kind = "storage" /\ ~Whole(storage[partition.slot])
  /\ storage' = [storage EXCEPT ![partition.slot].blocks = @ + 1]
  /\ UNCHANGED <<app, boot, spiffId, memory, history>>

\* setSpiffId(): a write that nvs refuses is only logged; RamStorage takes any.
Name(id) ==
  \/ named' = id /\ spiffId' = (IF inFlash THEN id ELSE spiffId)
  \/ inFlash /\ UNCHANGED <<named, spiffId>>

\* fs::deinit() unmounts what the settings name; the check of its result fails
\* when that is not mounted.
UnmountFails ==
  /\ Alive /\ upload.kind = "storage" /\ Whole(storage[partition.slot]) /\ mounted # named
  /\ Abort("not mounted")
  /\ UNCHANGED uploads

\* endSpiff(): unmount, name the other partition, mount what is named then. The
\* answer is "Success" whether or not the settings took the name.
EndSpiff ==
  /\ Alive /\ upload.kind = "storage" /\ Whole(storage[partition.slot]) /\ mounted = named
  /\ Name(1 - named)
  /\ mounted' = named' /\ succeeded' = upload.image
  /\ refused' = (named' = named) /\ chosen' = (chosen /\ spiffId' = spiffId)
  /\ partition' = NoPartition /\ upload' = NoUpload
  /\ UNCHANGED <<app, boot, storage, running, inFlash, working, otaHndl, ended, restarting, aborted,
                 uploads>>

\* The property "Spiff partition ID": the settings change, nothing is mounted.
SetSpiffId ==
  /\ Alive /\ upload = NoUpload
  /\ Name(1 - named) /\ chosen' = (chosen \/ spiffId' # spiffId)
  /\ UNCHANGED <<app, boot, storage, running, mounted, inFlash, working, otaHndl, partition, upload,
                 ended, restarting, aborted, uploads, succeeded, refused>>

\* A block that cannot be written or a client that is lost ends the handler; the
\* partition and the handle stay set.
LoseUpload ==
  /\ Alive /\ upload # NoUpload
  /\ upload' = NoUpload
  /\ UNCHANGED <<flash, running, mounted, inFlash, named, working, otaHndl, partition, ended, restarting,
                 aborted, history>>

-----------------------------------------------------------------------------
(* Restarts *)

\* StateWork takes UPDATE END for a restart in five seconds, StateProvision ignores it.
HandleEnd ==
  /\ Alive /\ ended /\ ended' = FALSE /\ restarting' = (restarting \/ working)
  /\ UNCHANGED <<flash, running, mounted, inFlash, named, working, otaHndl, partition, upload, aborted,
                 history>>

\* The bootloader takes the other slot when the image to boot is not whole.
\* When nvs does not start, RamStorage names the first partition by default. A
\* file system that cannot be mounted is formatted.
Start ==
  /\ running' = IF Whole(app[boot]) THEN boot ELSE 1 - boot
  /\ inFlash' \in BOOLEAN /\ named' = (IF inFlash' THEN spiffId ELSE 0) /\ mounted' = named'
  /\ storage' = [storage EXCEPT ![named'].blocks = IF Whole(storage[named']) THEN @ ELSE 0]
  /\ working' \in BOOLEAN
  /\ otaHndl' = FALSE /\ partition' = NoPartition /\ upload' = NoUpload
  /\ ended' = FALSE /\ restarting' = FALSE /\ aborted' = "no"
  /\ UNCHANGED <<app, boot, spiffId, history>>

\* A failed assert or the restart that was asked for, at any moment of an upload;
\* a loss of power at any moment.
Restart == (~Alive \/ restarting) /\ Start
LosePower == Start

Next ==
  \/ BeginOtaAsserts \/ BeginOta \/ WriteOta \/ \E ok \in BOOLEAN : EndOta(ok)
  \/ BeginSpiffAsserts \/ BeginSpiff \/ WriteSpiff \/ UnmountFails \/ EndSpiff
  \/ SetSpiffId \/ LoseUpload
  \/ HandleEnd \/ Restart \/ LosePower

Spec == Init /\ [][Next]_vars

-----------------------------------------------------------------------------
(* Properties *)

RunsWholeImage == Whole(app[running]) /\ (partition.kind = "app" => partition.slot # running)
ServesWholeImage == ~chosen => Whole(storage[spiffId])

\* However an upload ends, and whenever the power is lost or the restart after an
\* earlier update comes, there is a whole firmware to run, the slot of which is never
\* written, and a whole file system that the settings in flash name, unless the user
\* named another, or an update while nvs was out of use erased the one they name.
WholeImagesAreUsed == RunsWholeImage /\ ServesWholeImage

FirmwareInstalled == app[boot] = Image(succeeded, Blocks)
FilesInstalled ==
  storage[named] = Image(succeeded, Blocks) /\ mounted = named /\ (inFlash => spiffId = named)

\* "Success" is answered when what was uploaded is whole and is what is used: from the
\* next start on, or in the case of the file system at once and, if the settings are in
\* flash, after the next start as well. Only settings that refuse the name of the new
\* file system make "Success" say less: the new one is whole in its partition, and the
\* one of before stays named and mounted.
SuccessIsInstalled ==
  [][succeeded' # succeeded =>
       \/ upload.kind = "app" /\ FirmwareInstalled'
       \/ upload.kind = "storage" /\ ~refused' /\ FilesInstalled'
       \/ /\ upload.kind = "storage" /\ refused' /\ UNCHANGED <<spiffId, named, mounted>>
          /\ storage'[1 - named] = Image(succeeded', Blocks)]_vars

\* The asserts of begin() and beginSpiff() (fb_update.cpp:42, 43, 114): no handle
\* is left over when a new update begins.
BeginsClean == aborted # "handle is set"
=============================================================================
