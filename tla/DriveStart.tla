---------------------------- MODULE DriveStart ----------------------------
(***************************************************************************)
(* The sampling prompts that a waiting rider causes                        *)
(* (battery/admission_demand.go, runAdmissionRequests of service.go),      *)
(* composed with the reader that has to answer them (ReaderFSM).           *)
(*                                                                         *)
(* The subscriber starts and withdraws a demand; the poller takes its      *)
(* ticker and two channels of size one, opens sampling rounds and prompts  *)
(* the readers; a reader asks for a retry when a sample makes a difference.*)
(* Rounds need two monitored slots (the kind "rounds" of a scene); the     *)
(* other reader is not modelled, so a round may end at any time and ask    *)
(* for a retry or not.  What rounds decide is in PackAdmission.            *)
(***************************************************************************)
EXTENDS ReaderFSM

VARIABLE demand     \* driveStartDeadline, the two channels, the open round

driveVars == <<vars, demand>>

(* prompted remembers that the readers were asked since the demand began   *)
(* or a retry was due; only DemandServed refers to it.                     *)
NoDemand == [deadline |-> "none", request |-> FALSE, ready |-> FALSE, round |-> FALSE,
             prompted |-> TRUE]

driveStartDemandActive == demand.deadline = "live"

(* setDriveStartStatus: a demand has one deadline, and one that has passed *)
(* counts until the status is withdrawn.                                   *)
setDriveStartStatus(waiting) ==
    /\ Changes("demand") /\ UNCHANGED <<reader, policy>>
    /\ demand' = IF ~waiting THEN [demand EXCEPT !.deadline = "none"]
                 ELSE IF demand.deadline # "none" THEN demand
                 ELSE [demand EXCEPT !.deadline = "live", !.request = TRUE, !.prompted = FALSE]

DeadlinePasses ==
    /\ driveStartDemandActive
    /\ demand' = [demand EXCEPT !.deadline = "expired"]
    /\ UNCHANGED vars

notifyAdmissionReady(d) ==
    IF driveStartDemandActive THEN [d EXCEPT !.ready = TRUE, !.prompted = FALSE] ELSE d

(* Readers are prompted for new rounds only. *)
pollAdmissionRoundsOnly(d, demanded, expired) ==
    LET new == "rounds" \in scene.events /\ (~d.round \/ expired)
    IN  /\ demand' = [d EXCEPT !.round = @ \/ new, !.prompted = @ \/ new]
        /\ reader' = IF new THEN prompted(reader) ELSE reader
        /\ UNCHANGED policy /\ Quietly

(* pollAdmission with beginRound and promptAdmissionReaders.  A round in   *)
(* progress, unless expired, already asks both readers.                    *)
pollAdmission(d, demanded, expired) ==
    LET new == "rounds" \in scene.events /\ (~d.round \/ expired)
        prompts == new \/ (demanded /\ ~d.round)
    IN  /\ demand' = [d EXCEPT !.round = @ \/ new, !.prompted = @ \/ prompts]
        /\ reader' = IF prompts THEN prompted(reader) ELSE reader
        /\ UNCHANGED policy /\ Quietly

(* The machine takes an event that it has no use for at once: the ticks    *)
(* and the samples are seconds apart.                                      *)
PromptTaken == "admission_poll" \notin Queued

(* runAdmissionRequests: the ticker... *)
PollerTicks ==
    /\ "rounds" \in scene.events /\ PromptTaken
    /\ \E expired \in BOOLEAN : pollAdmission(demand, FALSE, expired)

Foreground(d) ==
    IF driveStartDemandActive THEN \E expired \in BOOLEAN : pollAdmission(d, TRUE, expired)
    ELSE demand' = d /\ UNCHANGED vars

(* ... a demand, and a retry. *)
TakeRequest == demand.request /\ Foreground([demand EXCEPT !.request = FALSE])
TakeReady == demand.ready /\ Foreground([demand EXCEPT !.ready = FALSE])

(* observeAcquisition ends the round, with a sample of either reader. *)
RoundEnds(retry) ==
    LET d == [demand EXCEPT !.round = FALSE]
    IN  /\ demand.round /\ PromptTaken
        /\ demand' = IF retry THEN notifyAdmissionReady(d) ELSE d
        /\ UNCHANGED vars

(* The step confirms the tag and shows a pack that might be switched on. *)
Confirms ==
    /\ reader.fresh # "confirmed" /\ reader'.fresh = "confirmed"
    /\ reader'.data.state = "inactive" /\ policy.active

(* A step of the reader; it asks for a retry if it confirms the tag of a   *)
(* pack for which the gate holds no reservation.                           *)
ReaderStep ==
    /\ Next
    /\ \/ demand' = demand
       \/ Confirms /\ demand' = notifyAdmissionReady(demand)

DriveInit == Init /\ demand = NoDemand

Poller == PollerTicks \/ TakeRequest \/ TakeReady

DriveNext ==
    \/ ReaderStep \/ Poller \/ DeadlinePasses
    \/ \E waiting \in BOOLEAN : setDriveStartStatus(waiting)
    \/ \E retry \in BOOLEAN : RoundEnds(retry)

(* The select of the poller takes every channel that stays ready, and the  *)
(* ticker goes on.                                                         *)
DriveSpec ==
    /\ DriveInit /\ [][DriveNext]_driveVars /\ Fairness
    /\ WF_driveVars(PollerTicks) /\ []<>~demand.request /\ []<>~demand.ready

-----------------------------------------------------------------------------
(* Properties. *)

DriveTypeOK ==
    /\ TypeOK
    /\ demand \in [deadline: {"none", "live", "expired"}, request: BOOLEAN, ready: BOOLEAN,
                   round: BOOLEAN, prompted: BOOLEAN]

(* A prompt that found the machine busy or the queue full is answered: its *)
(* flag is taken up when the heartbeat waits again (state_machine.go:171-  *)
(* 174), unless the pack is empty, and rests, or in the wrong state, so    *)
(* that the heartbeat reads its status in cycle after cycle.               *)
PromptAnswered ==
    (reader.pending /\ reader.state \in Heartbeat)
    ~> \/ ~reader.pending \/ reader.state \notin Heartbeat
       \/ reader.data.empty \/ ~CheckStateCorrect(reader)

(* No wake-up is lost between the subscriber, the readers and the poller:  *)
(* a rider who waits, and every retry, gets the readers prompted, although *)
(* requests are dropped while one is queued and ignored during a round     *)
(* (README.md:164-167).                                                    *)
DemandServed ==
    (driveStartDemandActive /\ ~demand.prompted)
    ~> (~driveStartDemandActive \/ demand.prompted)
===========================================================================
