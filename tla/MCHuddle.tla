------------------------------ MODULE MCHuddle -------------------------------
(* A huddle of a viewer with one tab and a sharer with two; and what stands    *)
(* beside the messages: a status circle, a stage, a draft, cached translations. *)
(* They share no state: a run is a run of one of them, chosen in the initial    *)
(* state, with the others at rest.                                             *)
EXTENDS HuddleControl, TLC

CONSTANTS
    a, b, t1, t2, t3,
    CircleEvents, Stagers, StageHosts, StageFrames,
    Texts, NoText, Saves, DraftRequests, Locales, Translators, MaxEdits, MaxAsks

TwoUsers == {a, b}
ThreeTabs == {t1, t2, t3}
TwoForSharer == (t1 :> a) @@ (t2 :> b) @@ (t3 :> b)

VARIABLES
    part,       \* the component that runs
    status, timer, recent, debounced, queued, tabs, painting, shown, events, chosen, stale, slipped,
    enabled, participants, speakers, hands, watching, frame, leaving, changed, panel, stageFrames,
    unrendered, onStage, granted, crossed,
    draft, justSent, put, send, pencil, draftRequests, typed, misled,
    body, cache, translating, editing, asks, outdated

C == INSTANCE Presence WITH MaxEvents <- CircleEvents, task <- painting
S == INSTANCE Stage WITH
        Users <- Stagers, Hosts <- StageHosts, MaxFrames <- StageFrames,
        tabs <- watching, frames <- stageFrames, joined <- onStage
D == INSTANCE Drafts WITH
        Bodies <- Texts, None <- NoText, Puts <- Saves, MaxRequests <- DraftRequests,
        row <- draft, recent <- justSent, requests <- draftRequests
X == INSTANCE Translations WITH
        None <- NoText, Tasks <- Translators, MaxRequests <- MaxAsks,
        task <- translating, requests <- asks, crossed <- outdated

ASSUME CircleAssumption == C!PresenceAssumption
ASSUME StagersAssumption == S!StageAssumption
ASSUME SavesAssumption == D!DraftsAssumption
ASSUME AsksAssumption == X!TranslationsAssumption

circle ==
    <<status, timer, recent, debounced, queued, tabs, painting, shown, events, chosen, stale, slipped>>
stage ==
    <<enabled, participants, speakers, hands, watching, frame, leaving, changed, panel, stageFrames,
      unrendered, onStage, granted, crossed>>
drafts == <<draft, justSent, put, send, pencil, draftRequests, typed, misled>>
translations == <<body, cache, translating, editing, asks, outdated>>

SideInit ==
    /\ part \in {"huddle", "circle", "stage", "drafts", "translations"}
    /\ Init /\ C!Init /\ S!Init /\ D!Init /\ X!Init

Alone(name, rest) == part = name /\ UNCHANGED rest /\ UNCHANGED part
Huddle == Alone("huddle", <<circle, stage, drafts, translations>>) /\ Next
Circle == Alone("circle", <<vars, stage, drafts, translations>>) /\ C!Next
OnStage == Alone("stage", <<vars, circle, drafts, translations>>) /\ S!Next
Drafting == Alone("drafts", <<vars, circle, stage, translations>>) /\ D!Next
Translating == Alone("translations", <<vars, circle, stage, drafts>>) /\ X!Next
SideNext == Huddle \/ Circle \/ OnStage \/ Drafting \/ Translating

SideSpec == SideInit /\ [][SideNext]_<<part, vars, circle, stage, drafts, translations>>

(* What stands beside the messages: a status chosen is kept and a circle ends   *)
(* on what it should be; the stage is of those who are there and the floor a    *)
(* host's to give; what was sent is no draft; a cached translation is of the    *)
(* body that stands.  But for the crossings each module names.                 *)
SideStateHolds ==
    /\ C!TypeOK /\ C!ChoiceIsKept /\ C!IdleMeansQuiet /\ C!CircleIsRight
    /\ S!TypeOK /\ S!FloorWasGranted /\ S!StageIsOfThePresent /\ S!PanelShowsRoster
    /\ D!TypeOK /\ D!SentIsNotADraft /\ D!PencilFollowsDraft
    /\ X!TypeOK /\ X!CacheIsOfTheBody
=============================================================================
