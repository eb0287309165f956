------------------------------- MODULE Overlay -------------------------------
(***************************************************************************)
(* The music overlay on the driver group's copy of a clip                  *)
(* (prepareDriverVideoBuffer, src/safetyEventVideoMusicService.js) and its *)
(* ledger of jobs (src/safetyEventVideoSettings.js).                       *)
(*                                                                         *)
(* A clip is its size: it "fits" the safe target, it is "tight" (above the *)
(* target, within Telegram's 50 MB) or "huge".  ffmpeg is external: a run  *)
(* ends with an output of some size or in an error, a timeout included.    *)
(* Whether the overlay applies (the panel's switches, the asset, the 30 s  *)
(* cache, an ffmpeg found at first use) is a free choice per clip, since   *)
(* every way to answer no returns the clip as it came.  Codecs, bit rates, *)
(* durations and the temporary directory are left out.                     *)
(***************************************************************************)
EXTENDS Faults, FiniteSets

CONSTANT MusicLanes   \* the lanes whose clips pass the overlay

ASSUME OverlayAssumption == IsFiniteSet(MusicLanes)

VARIABLES
  overlay,    \* a lane's prepareDriverVideoBuffer in progress
  processing, \* table safety_event_video_jobs: how many rows read "processing"
  orphans     \* history: how many of them no overlay holds any more

overlayVars == <<overlay, processing, orphans>>

Sizes    == {"fits", "tight", "huge"}
Sendable == {"fits", "tight"}          \* at most TELEGRAM_HARD_LIMIT_BYTES

\* at: the await it stands before.  job: it holds a job's id.  original, out:
\* the size of the clip it was given and of the one it will return.
IdleOverlay == [at |-> "idle", job |-> FALSE, original |-> "fits", out |-> "fits"]

Overlays ==
  [at : {"idle", "open", "probe", "mix", "pass1", "pass2", "finish", "done"},
   job : BOOLEAN, original : Sizes, out : Sizes]

OverlayTypeOK ==
  /\ overlay \in [MusicLanes -> Overlays]
  /\ processing \in Nat
  /\ orphans \in Nat

OverlayInit ==
  /\ overlay = [l \in MusicLanes |-> IdleOverlay]
  /\ processing = 0
  /\ orphans = 0

\* Only speeding clips are mixed, and only when the settings, the asset and
\* ffmpeg are there.
OverlayStart(l, size, speeding) ==
  /\ overlay[l].at = "idle"
  /\ \E at \in IF speeding THEN {"open", "done"} ELSE {"done"} :
       overlay' = [overlay EXCEPT ![l] =
         [IdleOverlay EXCEPT !.at = at, !.original = size, !.out = size]]
  /\ UNCHANGED <<processing, orphans>>

\* recordJobStart swallows an insert that failed, or whose answer was lost; the
\* overlay goes on without an id.
OpenJob(l) ==
  /\ overlay[l].at = "open"
  /\ \/ /\ overlay' = [overlay EXCEPT ![l].at = "probe", ![l].job = TRUE]
        /\ processing' = processing + 1
        /\ UNCHANGED orphans
        /\ NoFault
     \/ /\ Fault("query")
        /\ overlay' = [overlay EXCEPT ![l].at = "probe"]
        /\ \E inserted \in 0..1 :
             /\ processing' = processing + inserted
             /\ orphans' = orphans + inserted

\* What the overlay decides to return; the job's row is finished first.
Returning(l, size) == [overlay EXCEPT ![l].at = "finish", ![l].out = size]

GiveUpUnfinished(l) ==
  /\ overlay[l].at \in {"probe", "mix"}
  /\ overlay' = [overlay EXCEPT ![l].at = "done", ![l].out = overlay[l].original]
  /\ UNCHANGED <<processing, orphans, faults>>

\* A clip longer than maxVideoSeconds, a disk that is full, an encoder that
\* fails: the original.
GiveUp(l) ==
  /\ overlay[l].at \in {"probe", "mix"}
  /\ overlay' = Returning(l, overlay[l].original)
  /\ UNCHANGED <<processing, orphans, faults>>

ProbeClip(l) ==
  /\ overlay[l].at = "probe"
  /\ overlay' = [overlay EXCEPT ![l].at = "mix"]
  /\ UNCHANGED <<processing, orphans, faults>>

MixMusic(l) ==
  /\ overlay[l].at = "mix"
  /\ \E size \in Sizes :
       overlay' = IF size = "fits" THEN Returning(l, size)
                                   ELSE [overlay EXCEPT ![l].at = "pass1"]
  /\ UNCHANGED <<processing, orphans, faults>>

AcceptableAnySize(pass) == IF pass = "pass1" THEN {"fits"} ELSE Sizes

\* The first pass must reach the target, the second may end anywhere under
\* the hard limit.  A pass that fails counts as one that is still too large.
Acceptable(pass) == IF pass = "pass1" THEN {"fits"} ELSE Sendable

Compress(l) ==
  /\ overlay[l].at \in {"pass1", "pass2"}
  /\ \E size \in Sizes :
       overlay' = IF size \in Acceptable(overlay[l].at) THEN Returning(l, size)
                  ELSE IF overlay[l].at = "pass1" THEN [overlay EXCEPT ![l].at = "pass2"]
                  ELSE Returning(l, overlay[l].original)
  /\ UNCHANGED <<processing, orphans, faults>>

\* finishJob does nothing without an id and swallows a failed update.
FinishJob(l) ==
  /\ overlay[l].at = "finish"
  /\ IF ~overlay[l].job
     THEN UNCHANGED <<processing, orphans, faults>>
     ELSE \/ /\ processing' = processing - 1
             /\ NoFault
             /\ UNCHANGED orphans
          \/ /\ Fault("query")
             /\ orphans' = orphans + 1
             /\ UNCHANGED processing
  /\ overlay' = [overlay EXCEPT ![l].at = "done", ![l].job = FALSE]

OverlayStep(l) ==
  \/ OpenJob(l)
  \/ GiveUp(l)
  \/ ProbeClip(l)
  \/ MixMusic(l)
  \/ Compress(l)
  \/ FinishJob(l)

----------------------------------------------------------------------------
(* Properties *)

JobHolders == {l \in MusicLanes : overlay[l].job}

\* Every row that reads "processing" is an overlay still at work, or one whose
\* answer was lost, whose update failed or whose process died
\* (README.md:213-214).
JobsAccounted == processing = Cardinality(JobHolders) + orphans
=============================================================================
