----------------------------- MODULE ImageCache -----------------------------
(***************************************************************************)
(* The base-image cache of the storage adapter: Adapter.GetImage, its     *)
(* helpers downloadImage and calculateChecksum (storage/adapter.go) and   *)
(* the in-memory image records (storage/image_repository.go).  Every      *)
(* Create calls GetImage from its own gRPC goroutine, so callers c \in    *)
(* Callers run it concurrently; nothing serialises two callers of one     *)
(* template.  A caller that gets a path goes on to build an overlay on it *)
(* (Create step 5); Deletes remove overlays.                              *)
(*                                                                         *)
(* File content is abstracted to what the checksum tells apart: "good" is *)
(* the complete image, "torn" a truncated or partly written one, and      *)
(* "corrupt" a complete file damaged outside the agent.  A checksum is the *)
(* content label it was computed from.                                    *)
(***************************************************************************)
EXTENDS Naturals

CONSTANTS
    Templates,    \* template tags (the validator admits only known ones)
    Callers,      \* concurrent GetImage callers (Create handlers)
    MaxOverlays,  \* bound on the overlays built on one base image
    None

ASSUME ImageConstantsAssumption ==
    /\ MaxOverlays \in Nat \ {0}
    /\ None \notin Templates \cup Callers

Content == {"absent", "good", "torn", "corrupt"}

VARIABLES
    file,       \* <cache>/<template>.qcow2: its content
    lastTrunc,  \* the caller whose os.Create truncated the file last
    rec,        \* InMemoryImageRepository.images: template -> checksum, or None
    overlays,   \* number of VM overlays backed by the base image
    pc,         \* the next step of each caller
    tmpl,       \* the template the caller asked for
    seen,       \* the record returned by imageRepo.Get
    sum         \* the checksum computed after the download

vars == <<file, lastTrunc, rec, overlays, pc, tmpl, seen, sum>>

CPCs == {"idle", "verify", "download", "copy", "checksum", "save", "disk"}

TypeOK ==
    /\ file \in [Templates -> Content]
    /\ lastTrunc \in [Templates -> Callers \cup {None}]
    /\ rec \in [Templates -> Content \cup {None}]
    /\ overlays \in [Templates -> 0..MaxOverlays]
    /\ pc \in [Callers -> CPCs]
    /\ tmpl \in [Callers -> Templates \cup {None}]
    /\ seen \in [Callers -> Content \cup {None}]
    /\ sum \in [Callers -> Content \cup {None}]

Init ==
    /\ file = [t \in Templates |-> "absent"]
    /\ lastTrunc = [t \in Templates |-> None]
    /\ rec = [t \in Templates |-> None]
    /\ overlays = [t \in Templates |-> 0]
    /\ pc = [c \in Callers |-> "idle"]
    /\ tmpl = [c \in Callers |-> None]
    /\ seen = [c \in Callers |-> None]
    /\ sum = [c \in Callers |-> None]

(* Image.IsValid on the checksum of the current file: equal contents hash
   alike.  Two torn files may differ in length, so a torn file may or may
   not match a checksum taken from a torn file. *)
HashMatches(content, stored) == content = stored

\* The checksum certainly matches: equal complete contents.
SureMatch(content, stored) == content = stored /\ content # "torn"

Step(c, l) == pc' = [pc EXCEPT ![c] = l]

Fail(c) ==
    /\ pc' = [pc EXCEPT ![c] = "idle"]
    /\ tmpl' = [tmpl EXCEPT ![c] = None]
    /\ seen' = [seen EXCEPT ![c] = None]
    /\ sum' = [sum EXCEPT ![c] = None]

\* GetImage lines 50-62: Exists, then Get of the record (records are only
\* ever replaced, never removed, so the two reads see the same presence).
GetCached(c, t) ==
    /\ pc[c] = "idle"
    /\ tmpl' = [tmpl EXCEPT ![c] = t]
    /\ seen' = [seen EXCEPT ![c] = rec[t]]
    /\ Step(c, IF rec[t] = None THEN "download" ELSE "verify")
    /\ UNCHANGED <<file, lastTrunc, rec, overlays, sum>>

\* GetImage lines 64-71: hash the file; a match returns the cached path,
\* a missing file or a mismatch falls through to a new download.
Verify(c) ==
    LET t == tmpl[c] IN
    /\ pc[c] = "verify"
    /\ \/ /\ file[t] # "absent"
          /\ HashMatches(file[t], seen[c])
          /\ Step(c, "disk")
       \/ /\ ~(file[t] # "absent" /\ SureMatch(file[t], seen[c]))
          /\ Step(c, "download")
    /\ UNCHANGED <<file, lastTrunc, rec, overlays, tmpl, seen, sum>>

\* downloadImage lines 170-194: http.Get and the status check may fail;
\* otherwise os.Create truncates the final path (no temp file).
Download(c) ==
    LET t == tmpl[c] IN
    /\ pc[c] = "download"
    /\ \/ /\ Fail(c)
          /\ UNCHANGED <<file, lastTrunc>>
       \/ /\ file' = [file EXCEPT ![t] = "torn"]
          /\ lastTrunc' = [lastTrunc EXCEPT ![t] = c]
          /\ Step(c, "copy")
          /\ UNCHANGED <<tmpl, seen, sum>>
    /\ UNCHANGED <<rec, overlays>>

\* Mutant: an io.Copy error is not checked.
CopyIgnoreError(c) ==
    LET t == tmpl[c] IN
    /\ pc[c] = "copy"
    /\ file' \in {[file EXCEPT ![t] = IF lastTrunc[t] = c THEN "good" ELSE @], file}
    /\ Step(c, "checksum")
    /\ UNCHANGED <<lastTrunc, rec, overlays, tmpl, seen, sum>>

\* downloadImage lines 196-202: io.Copy streams the body to the file.  The
\* file is complete when the caller that truncated it last finishes; an
\* error leaves it torn and GetImage fails.
Copy(c) ==
    LET t == tmpl[c] IN
    /\ pc[c] = "copy"
    /\ \/ /\ file' = [file EXCEPT ![t] = IF lastTrunc[t] = c THEN "good" ELSE @]
          /\ Step(c, "checksum")
          /\ UNCHANGED <<tmpl, seen, sum>>
       \/ /\ UNCHANGED file
          /\ Fail(c)
    /\ UNCHANGED <<lastTrunc, rec, overlays>>

\* GetImage lines 88-93 with calculateChecksum: hash the file as it is now,
\* or fail to open or read it.
Checksum(c) ==
    /\ pc[c] = "checksum"
    /\ \/ /\ sum' = [sum EXCEPT ![c] = file[tmpl[c]]]
          /\ Step(c, "save")
          /\ UNCHANGED <<tmpl, seen>>
       \/ Fail(c)
    /\ UNCHANGED <<file, lastTrunc, rec, overlays>>

\* GetImage lines 95-107: store the record and return the path.
Save(c) ==
    /\ pc[c] = "save"
    /\ rec' = [rec EXCEPT ![tmpl[c]] = sum[c]]
    /\ Step(c, "disk")
    /\ UNCHANGED <<file, lastTrunc, overlays, tmpl, seen, sum>>

\* Create step 5: qemu-img builds an overlay on the returned base image, or
\* fails; either way this caller's GetImage is over.
BuildOverlay(c) ==
    LET t == tmpl[c] IN
    /\ pc[c] = "disk"
    /\ overlays' \in {[overlays EXCEPT ![t] = @ + 1], overlays}
    /\ overlays'[t] <= MaxOverlays
    /\ Fail(c)
    /\ UNCHANGED <<file, lastTrunc, rec>>

\* A Delete removes a VM's overlay.
RemoveOverlay(t) ==
    /\ overlays[t] > 0
    /\ overlays' = [overlays EXCEPT ![t] = @ - 1]
    /\ UNCHANGED <<file, lastTrunc, rec, pc, tmpl, seen, sum>>

\* The host damages a complete base image (bit rot, an operator's edit):
\* the event the checksum re-verification exists for.
Corrupt(t) ==
    /\ file[t] = "good"
    /\ file' = [file EXCEPT ![t] = "corrupt"]
    /\ UNCHANGED <<lastTrunc, rec, overlays, pc, tmpl, seen, sum>>

(* Process restart: NewInMemoryImageRepository starts empty; files and
   overlays stay on disk, and a download cut short stays torn. *)
Restart ==
    /\ rec' = [t \in Templates |-> None]
    /\ lastTrunc' = [t \in Templates |-> None]
    /\ pc' = [c \in Callers |-> "idle"]
    /\ tmpl' = [c \in Callers |-> None]
    /\ seen' = [c \in Callers |-> None]
    /\ sum' = [c \in Callers |-> None]
    /\ UNCHANGED <<file, overlays>>

Caller(c) ==
    \/ \E t \in Templates : GetCached(c, t)
    \/ Verify(c) \/ Download(c) \/ Copy(c) \/ Checksum(c) \/ Save(c)
    \/ BuildOverlay(c)

(* The callers and Deletes, a restart of the agent at any point, and the
   host damaging a cached file. *)
Next ==
    \/ \E c \in Callers : Caller(c)
    \/ \E t \in Templates : RemoveOverlay(t) \/ Corrupt(t)
    \/ Restart

Spec == Init /\ [][Next]_vars

-----------------------------------------------------------------------------
(* Properties *)

(* Spec 4.2 and 10: the image GetImage hands to qemu-img is the complete
   download, or a complete file damaged afterwards by the host; never a file
   another download has truncated or left half written, nor one a crash cut
   short (a restart forgets the records, so the next caller downloads). *)
ImageStableWhileUsed ==
    \A c \in Callers :
        pc[c] = "disk" => file[tmpl[c]] \in {"good", "corrupt"}

(* Spec 4.2, the checksum record: GetImage stores a template's checksum
   only after a download completed, so a record never certifies a torn
   file; a later cache hit relies on that when it accepts a file whose hash
   matches the record.  A restart may only drop records. *)
RecordsOnlyComplete ==
    [][\A t \in Templates :
         rec'[t] # rec[t] => rec'[t] \in {"good", "corrupt", None}]_vars

=============================================================================
