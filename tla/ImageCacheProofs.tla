-------------------------- MODULE ImageCacheProofs --------------------------
(***************************************************************************)
(* Proofs about the image cache of ImageCache: its type invariant for any *)
(* templates, callers and overlay bound, and, for a single GetImage       *)
(* caller, that qemu-img is only ever handed a complete base image.      *)
(***************************************************************************)
EXTENDS ImageCache, TLAPS

USE ImageConstantsAssumption

\* A complete base image: the download finished, possibly damaged later.
Complete == {"good", "corrupt"}

(* TypeOK with what a caller past Exists/Get holds: the template it asked
   for, which Checksum, Save and BuildOverlay index the cache by. *)
TypeInv ==
    /\ TypeOK
    /\ \A c \in Callers : pc[c] # "idle" => tmpl[c] \in Templates

(* The inductive invariant behind ImageStableWhileUsed for the one caller
   c0: a record only ever holds the checksum of a complete file; the
   caller copying the body is the one that truncated the file last; and
   from Checksum to the overlay the file stays complete, since only this
   caller's Download truncates it. *)
SInv(c0) ==
    /\ TypeInv
    /\ \A t \in Templates : rec[t] \in Complete \cup {None}
    /\ pc[c0] = "verify" => seen[c0] \in Complete
    /\ pc[c0] = "copy" => lastTrunc[tmpl[c0]] = c0
    /\ pc[c0] \in {"checksum", "save", "disk"} => file[tmpl[c0]] \in Complete
    /\ pc[c0] = "save" => sum[c0] \in Complete

-----------------------------------------------------------------------------
(* Type correctness, for any templates, callers and overlay bound. *)

LEMMA InitTypeInv == Init => TypeInv
BY DEF Init, TypeInv, TypeOK, Content, CPCs

\* Fail returns the caller to idle with its locals cleared.
LEMMA FailTypeOK ==
    ASSUME TypeInv, NEW c \in Callers, Fail(c)
    PROVE  /\ pc' \in [Callers -> CPCs]
           /\ tmpl' \in [Callers -> Templates \cup {None}]
           /\ seen' \in [Callers -> Content \cup {None}]
           /\ sum' \in [Callers -> Content \cup {None}]
           /\ \A d \in Callers : pc'[d] # "idle" => tmpl'[d] \in Templates
BY DEF Fail, TypeInv, TypeOK, CPCs

LEMMA NextTypeInv == TypeInv /\ [Next]_vars => TypeInv'
<1> SUFFICES ASSUME TypeInv, [Next]_vars PROVE TypeInv'
    OBVIOUS
<1> USE DEF TypeInv, TypeOK
<1>1. ASSUME NEW c \in Callers, NEW t \in Templates, GetCached(c, t)
      PROVE  TypeInv'
    BY <1>1 DEF GetCached, Step, CPCs
<1>2. ASSUME NEW c \in Callers, Verify(c) PROVE TypeInv'
    BY <1>2 DEF Verify, Step, CPCs
<1>3. ASSUME NEW c \in Callers, Download(c) PROVE TypeInv'
    <2>1. CASE Fail(c) /\ UNCHANGED <<file, lastTrunc>>
        BY <1>3, <2>1, FailTypeOK DEF Download
    <2>2. CASE /\ file' = [file EXCEPT ![tmpl[c]] = "torn"]
               /\ lastTrunc' = [lastTrunc EXCEPT ![tmpl[c]] = c]
               /\ Step(c, "copy")
               /\ UNCHANGED <<tmpl, seen, sum>>
        BY <1>3, <2>2 DEF Download, Step, CPCs, Content
    <2>3. QED BY <1>3, <2>1, <2>2 DEF Download
<1>4. ASSUME NEW c \in Callers, Copy(c) PROVE TypeInv'
    <2>1. CASE UNCHANGED file /\ Fail(c)
        BY <1>4, <2>1, FailTypeOK DEF Copy
    <2>2. CASE /\ file' = [file EXCEPT ![tmpl[c]] =
                              IF lastTrunc[tmpl[c]] = c THEN "good" ELSE @]
               /\ Step(c, "checksum")
               /\ UNCHANGED <<tmpl, seen, sum>>
        BY <1>4, <2>2 DEF Copy, Step, CPCs, Content
    <2>3. QED BY <1>4, <2>1, <2>2 DEF Copy
<1>5. ASSUME NEW c \in Callers, Checksum(c) PROVE TypeInv'
    <2>1. CASE Fail(c)
        BY <1>5, <2>1, FailTypeOK DEF Checksum
    <2>2. CASE /\ sum' = [sum EXCEPT ![c] = file[tmpl[c]]]
               /\ Step(c, "save")
               /\ UNCHANGED <<tmpl, seen>>
        BY <1>5, <2>2 DEF Checksum, Step, CPCs
    <2>3. QED BY <1>5, <2>1, <2>2 DEF Checksum
<1>6. ASSUME NEW c \in Callers, Save(c) PROVE TypeInv'
    BY <1>6 DEF Save, Step, CPCs
<1>7. ASSUME NEW c \in Callers, BuildOverlay(c) PROVE TypeInv'
    <2>1. overlays' \in [Templates -> 0..MaxOverlays]
        BY <1>7 DEF BuildOverlay
    <2>2. QED BY <1>7, <2>1, FailTypeOK DEF BuildOverlay
<1>8. ASSUME NEW t \in Templates, RemoveOverlay(t) PROVE TypeInv'
    BY <1>8 DEF RemoveOverlay
<1>9. ASSUME NEW t \in Templates, Corrupt(t) PROVE TypeInv'
    BY <1>9 DEF Corrupt, Content
<1>10. CASE Restart
    BY <1>10 DEF Restart, CPCs
<1>11. CASE UNCHANGED vars
    BY <1>11 DEF vars
<1>12. QED
    BY <1>1, <1>2, <1>3, <1>4, <1>5, <1>6, <1>7, <1>8, <1>9, <1>10, <1>11
    DEF Next, Caller

(* Type correctness of the image cache, TypeOK: whatever interleaving of
   GetImage callers, Deletes, host damage and restarts, the file contents,
   records, overlay counts and every caller's locals keep their types; in
   particular the overlay count stays within 0..MaxOverlays. *)
THEOREM ImageTypeCorrect == Spec => []TypeOK
<1>1. Init => TypeInv
    BY InitTypeInv
<1>2. TypeInv /\ [Next]_vars => TypeInv'
    BY NextTypeInv
<1>3. TypeInv => TypeOK
    BY DEF TypeInv
<1>4. QED BY <1>1, <1>2, <1>3, PTL DEF Spec

-----------------------------------------------------------------------------
(* The image handed to qemu-img, for one GetImage caller at a time. *)

\* The part of SInv beyond TypeInv, which a step has to re-establish.
SRest(c0) ==
    /\ \A t \in Templates : rec[t] \in Complete \cup {None}
    /\ pc[c0] = "verify" => seen[c0] \in Complete
    /\ pc[c0] = "copy" => lastTrunc[tmpl[c0]] = c0
    /\ pc[c0] \in {"checksum", "save", "disk"} => file[tmpl[c0]] \in Complete
    /\ pc[c0] = "save" => sum[c0] \in Complete

LEMMA InitSInv ==
    ASSUME NEW c0 \in Callers
    PROVE  Init => SInv(c0)
BY InitTypeInv DEF Init, SInv

LEMMA NextSInv ==
    ASSUME NEW c0, Callers = {c0}
    PROVE  SInv(c0) /\ [Next]_vars => SInv(c0)'
<1> SUFFICES ASSUME SInv(c0), [Next]_vars PROVE SRest(c0)'
    BY NextTypeInv DEF SInv, SRest
<1> USE DEF SInv, SRest, TypeInv, TypeOK, Complete
<1>1. ASSUME NEW t \in Templates, GetCached(c0, t) PROVE SRest(c0)'
    BY <1>1 DEF GetCached, Step
<1>2. CASE Verify(c0)
    BY <1>2 DEF Verify, Step, HashMatches
<1>3. CASE Download(c0)
    BY <1>3 DEF Download, Step, Fail
<1>4. CASE Copy(c0)
    BY <1>4 DEF Copy, Step, Fail, Content
<1>5. CASE Checksum(c0)
    BY <1>5 DEF Checksum, Step, Fail
<1>6. CASE Save(c0)
    BY <1>6 DEF Save, Step
<1>7. CASE BuildOverlay(c0)
    BY <1>7 DEF BuildOverlay, Fail
<1>8. ASSUME NEW t \in Templates, RemoveOverlay(t) PROVE SRest(c0)'
    BY <1>8 DEF RemoveOverlay
<1>9. ASSUME NEW t \in Templates, Corrupt(t) PROVE SRest(c0)'
    BY <1>9 DEF Corrupt
<1>10. CASE Restart
    BY <1>10 DEF Restart
<1>11. CASE UNCHANGED vars
    BY <1>11 DEF vars
<1>12. QED
    BY <1>1, <1>2, <1>3, <1>4, <1>5, <1>6, <1>7, <1>8, <1>9, <1>10, <1>11
    DEF Next, Caller

(* Spec 4.2, ImageStableWhileUsed: with one GetImage caller at a time, for
   any templates and overlay bound, the base image a caller returns to
   Create is complete (the download it finished, or that file damaged by
   the host afterwards), never a torn file: a record only ever stores the
   checksum of a complete file, so a cache hit verifies only a complete
   file, and a fresh download is complete once its own io.Copy is done.
   With two callers of one template TLC finds this false (run
   image_conc_torn): the unguarded os.Create lets a second download
   truncate the first one's file. *)
THEOREM ImageStableSequential ==
    ASSUME NEW c0, Callers = {c0}
    PROVE  Spec => []ImageStableWhileUsed
<1>1. Init => SInv(c0)
    BY InitSInv
<1>2. SInv(c0) /\ [Next]_vars => SInv(c0)'
    BY NextSInv
<1>3. SInv(c0) => ImageStableWhileUsed
    BY DEF SInv, ImageStableWhileUsed, Complete
<1>4. QED BY <1>1, <1>2, <1>3, PTL DEF Spec

(* Spec 4.2, RecordsOnlyComplete: with one GetImage caller at a time, no
   step stores the checksum of a torn file in the image records; Save
   writes the checksum Checksum took of a file its own io.Copy completed,
   and a restart only drops records. *)
THEOREM RecordsOnlyCompleteSequential ==
    ASSUME NEW c0, Callers = {c0}
    PROVE  Spec => RecordsOnlyComplete
<1> DEFINE A == \A t \in Templates :
                   rec'[t] # rec[t] => rec'[t] \in {"good", "corrupt", None}
<1>1. Init => SInv(c0)
    BY InitSInv
<1>2. SInv(c0) /\ [Next]_vars => SInv(c0)'
    BY NextSInv
<1>3. SInv(c0)' => [A]_vars
    BY DEF SInv, TypeInv, TypeOK, Complete
<1>4. QED BY <1>1, <1>2, <1>3, PTL DEF Spec, RecordsOnlyComplete

=============================================================================
