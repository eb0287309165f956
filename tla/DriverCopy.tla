----------------------------- MODULE DriverCopy -----------------------------
(***************************************************************************)
(* The driver group's copy of an alert, from the group it is routed to     *)
(* (Routing) over its caption (Captions) and the music on its clips        *)
(* (Overlay) to the message the group gets: section 2 of deliverEvent      *)
(* (src/broadcastDelivery.js) and sendDriverGroupAlert                     *)
(* (src/driverGroupDelivery.js), over downloadVideo and the clips a        *)
(* broadcast keeps (src/index.js).                                         *)
(*                                                                         *)
(* The two lanes, safety and speeding, run at the same time; each handles  *)
(* one alert after the other.  The process may die at any step.            *)
(*                                                                         *)
(* Left to Broadcast: the ledger, the other recipients, the group's switch *)
(* and the retry of a run that failed for the moment.  A run that is tried *)
(* again is one more alert here.                                           *)
(***************************************************************************)
EXTENDS Routing, Captions, Overlay

CONSTANTS
  Speeding,    \* the lanes whose alerts are marked isSpeeding
  ClipSets,    \* ClipSets[l]: the sets of clips an alert of lane l may carry
  ClipSizes,   \* the sizes clips have; those above maxVideoMegabytes never arrive
  CrashLanes   \* the lanes that carry crash alerts only

ASSUME DriverCopyAssumption ==
  /\ AiLanes = Lanes /\ MusicLanes = Lanes
  /\ Speeding \subseteq Lanes /\ CrashLanes \subseteq Lanes
  /\ \A l \in Lanes : ClipSets[l] \subseteq SUBSET {"road", "cabin"}
  /\ ClipSizes \subseteq Sizes

VARIABLE copy   \* a lane's copy in progress, or the one it made last

vars == <<routingVars, ai, overlayVars, copy, faults>>

Clips == {"road", "cabin"}
Media == {"dual", "single", "text"}

\* at: where the copy is.  medium: the form it tries.  clips, size: the alert's clips.  have: the clips
\* the broadcast keeps.  tooLarge: videoTooLarge.  got: what the group got.
\* failed: history, a download or an upload of this copy failed.  refused:
\* Telegram answered 400 to its text, which settles the group for good.
IdleCopy ==
  [at |-> "idle", medium |-> "text", clips |-> {}, size |-> [c \in Clips |-> "fits"], have |-> {},
   tooLarge |-> FALSE, got |-> "none", failed |-> FALSE, refused |-> FALSE]

Copies ==
  [at : {"idle", "route", "caption", "fetch", "mix", "send"}, medium : Media,
   clips : SUBSET Clips, size : [Clips -> Sizes], have : SUBSET Clips,
   tooLarge : BOOLEAN, got : Media \cup {"none"}, failed : BOOLEAN, refused : BOOLEAN]

TypeOK ==
  /\ RoutingTypeOK
  /\ CaptionsTypeOK
  /\ OverlayTypeOK
  /\ FaultsTypeOK
  /\ copy \in [Lanes -> Copies]

Init ==
  /\ RoutingInit
  /\ CaptionsInit
  /\ OverlayInit
  /\ FaultsInit
  /\ copy = [l \in Lanes |-> IdleCopy]

SizesOf(clips) ==
  {size \in [Clips -> ClipSizes \cup {"fits"}] : \A c \in Clips \ clips : size[c] = "fits"}

----------------------------------------------------------------------------
(* One alert of a lane *)

\* The notifications are sent before the driver group's copy, so the broadcast
\* may already keep any of the clips.
TakeAlert(l) ==
  /\ copy[l].at = "idle"
  /\ \E label \in Labels : RouteStart(l, label)
  /\ \E clips \in ClipSets[l] : \E size \in SizesOf(clips), have \in SUBSET clips :
       copy' = [copy EXCEPT ![l] =
         [IdleCopy EXCEPT !.at = "route", !.clips = clips, !.size = size, !.have = have]]
  /\ UNCHANGED <<ai, overlayVars>>

\* An alert that found no group is not forwarded.
ForwardAlert(l) ==
  /\ copy[l].at = "route"
  /\ route[l].at = "done"
  /\ IF route[l].group = NoGroup
     THEN /\ copy' = [copy EXCEPT ![l] = IdleCopy]
          /\ UNCHANGED ai
     ELSE /\ CaptionStart(l, l \in CrashLanes)
          /\ copy' = [copy EXCEPT ![l].at = "caption"]
  /\ route' = [route EXCEPT ![l] = IdleRoute]
  /\ UNCHANGED <<links, titles, findings, edits, settledKey, overlayVars, faults>>

\* The form a copy tries first, and the one it falls back to.
Trying(r, medium) ==
  [r EXCEPT !.medium = medium, !.at = IF medium = "text" THEN "send" ELSE "fetch"]

FirstMedium(r) ==
  IF r.clips = Clips THEN "dual" ELSE IF "road" \in r.clips THEN "single" ELSE "text"

FallBack(r) == Trying(r, IF r.medium = "dual" /\ ~r.tooLarge THEN "single" ELSE "text")

StartSending(l) ==
  /\ copy[l].at = "caption"
  /\ ai[l].at = "done"
  /\ copy' = [copy EXCEPT ![l] = Trying(copy[l], FirstMedium(copy[l]))]
  /\ UNCHANGED <<routingVars, ai, overlayVars, faults>>

Needed(r) == IF r.medium = "dual" THEN Clips ELSE {"road"}

\* Clips the broadcast keeps are not downloaded again; one that failed is
\* forgotten, and the next form downloads it anew.
FetchClips(l) ==
  /\ copy[l].at = "fetch"
  /\ LET r == copy[l]
         missing == Needed(r) \ r.have
     IN  \/ /\ copy' = [copy EXCEPT ![l].at = "mix", ![l].have = @ \cup missing]
            /\ OverlayStart(l, r.size["road"], l \in Speeding)
            /\ NoFault
         \/ /\ Fault("download")
            /\ \E arrived \in (SUBSET missing) \ {missing} :
                 copy' = [copy EXCEPT ![l] = FallBack(
                   [r EXCEPT !.have = @ \cup arrived, !.failed = TRUE])]
            /\ UNCHANGED overlayVars
  /\ UNCHANGED <<routingVars, ai>>

\* Nothing above Telegram's limit is uploaded.  A cabin clip that is too large
\* only costs the media group.
CheckSize(l) ==
  /\ copy[l].at = "mix"
  /\ overlay[l].at = "done"
  /\ LET r == copy[l]
         huge == overlay[l].out = "huge"
     IN  copy' = [copy EXCEPT ![l] =
           IF huge \/ (r.medium = "dual" /\ r.size["cabin"] = "huge")
           THEN FallBack([r EXCEPT !.tooLarge = huge])
           ELSE [r EXCEPT !.at = "send"]]
  /\ overlay' = [overlay EXCEPT ![l] = IdleOverlay]
  /\ UNCHANGED <<routingVars, ai, processing, orphans, faults>>

Ended(r) == [r EXCEPT !.at = "idle", !.have = {}]

SendCopy(l) ==
  /\ copy[l].at = "send"
  /\ ai[l].caption # "broken"
  /\ copy' = [copy EXCEPT ![l] = Ended([copy[l] EXCEPT !.got = copy[l].medium])]
  /\ ai' = [ai EXCEPT ![l] = IdleCaption]
  /\ UNCHANGED <<routingVars, overlayVars, faults>>

\* After an error the next form is tried; after the text's the copy is over.
NextForm(l, r) ==
  IF r.medium # "text"
  THEN /\ copy' = [copy EXCEPT ![l] = FallBack(r)]
       /\ UNCHANGED ai
  ELSE /\ copy' = [copy EXCEPT ![l] = Ended(r)]
       /\ ai' = [ai EXCEPT ![l] = IdleCaption]

SendFails(l) ==
  /\ copy[l].at = "send"
  /\ Fault("telegram")
  /\ NextForm(l, [copy[l] EXCEPT !.failed = TRUE])
  /\ UNCHANGED <<routingVars, overlayVars>>

\* Every form carries the caption with parse_mode HTML, and is answered 400,
\* which classifyTelegramError takes for permanent.
CaptionRefused(l) ==
  /\ copy[l].at = "send"
  /\ ai[l].caption = "broken"
  /\ NextForm(l, [copy[l] EXCEPT !.refused = copy[l].medium = "text"])
  /\ UNCHANGED <<routingVars, overlayVars, faults>>

----------------------------------------------------------------------------
(* The process *)

Crash ==
  /\ \E l \in Lanes : copy[l].at # "idle"
  /\ Fault("crash")
  /\ route' = [l \in Lanes |-> IdleRoute]
  /\ ai' = [l \in Lanes |-> IdleCaption]
  /\ overlay' = [l \in Lanes |-> IdleOverlay]
  /\ copy' = [l \in Lanes |-> IdleCopy]
  /\ orphans' = orphans + Cardinality(JobHolders)
  /\ settledKey' = IF \E l \in Lanes : Routing(l) THEN Unknown ELSE settledKey
  /\ UNCHANGED <<links, titles, findings, edits, processing>>

RoutingStep(l) ==
  /\ RouteStep(l)
  /\ UNCHANGED <<ai, overlayVars, copy>>

CaptioningStep(l) ==
  /\ copy[l].at = "caption"
  /\ CaptionStep(l)
  /\ UNCHANGED <<routingVars, overlayVars, copy, faults>>

MixingStep(l) ==
  /\ OverlayStep(l)
  /\ UNCHANGED <<routingVars, ai, copy>>

HubStep ==
  /\ HubEdit
  /\ UNCHANGED <<ai, overlayVars, copy>>

Next ==
  \/ \E l \in Lanes :
       \/ TakeAlert(l)
       \/ RoutingStep(l)
       \/ ForwardAlert(l)
       \/ CaptioningStep(l)
       \/ StartSending(l)
       \/ FetchClips(l)
       \/ MixingStep(l)
       \/ CheckSize(l)
       \/ SendCopy(l)
       \/ SendFails(l)
       \/ CaptionRefused(l)
  \/ HubStep
  \/ Crash

Spec == Init /\ [][Next]_vars

----------------------------------------------------------------------------
(* Properties *)

\* A group that got less than the alert carried had a download or an upload
\* fail on it, or the alert's own clip is above Telegram's limit: the music
\* never costs the group a clip (safetyEventVideoMusicService.js:9-11), and a
\* cabin clip that is too large never costs it the road clip.
ClipsKept ==
  \A l \in Lanes :
    LET r == copy[l]
    IN  /\ r.got = "text" /\ "road" \in r.clips => r.failed \/ r.size["road"] = "huge"
        /\ r.got = "single" /\ r.clips = Clips =>
             r.failed \/ \E c \in Clips : r.size[c] = "huge"

\* The AI is optional: an AI failure never blocks or crashes delivery
\* (docs/architecture/module-map.md:31-32).  With Telegram answering every
\* well-formed message, no copy of an alert is refused.
AiNeverBlocks == \A l \in Lanes : ~copy[l].refused
=============================================================================
