------------------------------- MODULE SubmitForm -------------------------------
(***************************************************************************)
(* The form of static/index.html: the submit button and the interval that  *)
(* polls the status of the last submission.  A fetch is sent, answered by  *)
(* the server and received in three steps; answers arrive in any order,    *)
(* late, or not at all.  A transcript may come to an end, may be retried   *)
(* by anybody after that, and may stay pending or processing for ever.     *)
(*                                                                         *)
(* Of a status the form tells apart only whether it is final.  Two status  *)
(* fetches of one transcript that wait, or carry the same answer, at the   *)
(* same time count as one.  The form affects nothing else on the page but  *)
(* that each status it receives reloads the list (RecentList).             *)
(***************************************************************************)
EXTENDS Naturals

CONSTANTS
    MaxSubmissions,     \* bound: transcripts submitted on this page
    MaxLost,            \* bound: answers lost or turned into errors
    NoTranscript

Submissions == 1 .. MaxSubmissions

ASSUME FormAssumption ==
    /\ MaxSubmissions \in Nat /\ MaxLost \in Nat
    /\ NoTranscript \notin Submissions

VARIABLES
    settled,    \* submissions whose transcript is now completed or failed
    post,       \* post[t]: the POST of submission t
    button,     \* submitBtn; "busy" is disabled
    timers,     \* the submissions that a live interval polls
    current,    \* statusPollInterval, by the submission it polls
    polls,      \* polls[t]: status fetches of t in flight
    lost        \* how many answers were lost so far

formVars == <<settled, post, button, timers, current, polls, lost>>

Answers == {"final", "other"}

FormTypeOK ==
    /\ settled \subseteq Submissions
    /\ post \in [Submissions -> {"none", "sent", "created", "refused", "over"}]
    /\ button \in {"ready", "busy"}
    /\ timers \subseteq Submissions
    /\ current \in Submissions \cup {NoTranscript}
    /\ polls \in [Submissions -> SUBSET ({"waiting"} \cup Answers)]
    /\ lost \in 0 .. MaxLost

FormInit ==
    /\ settled = {}
    /\ post = [t \in Submissions |-> "none"]
    /\ button = "ready"
    /\ timers = {}
    /\ current = NoTranscript
    /\ polls = [t \in Submissions |-> {}]
    /\ lost = 0

-------------------------------------------------------------------------------
(* The server.                                                              *)

AnswerPost(t) ==
    /\ post[t] = "sent"
    /\ \E answer \in {"created", "refused"} : post' = [post EXCEPT ![t] = answer]
    /\ UNCHANGED <<settled, button, timers, current, polls, lost>>

(* The worker marks the transcript completed or failed.  It need not: see   *)
(* DocumentedClaims for the ways in which no outcome is ever recorded.      *)
FinishJob(t) ==
    /\ post[t] \in {"created", "over"}
    /\ settled' = settled \cup {t}
    /\ UNCHANGED <<post, button, timers, current, polls, lost>>

(* A retry call, of this page or of another client.                         *)
ReopenJob(t) ==
    /\ t \in settled
    /\ settled' = settled \ {t}
    /\ UNCHANGED <<post, button, timers, current, polls, lost>>

AnswerPoll(t) ==
    /\ "waiting" \in polls[t]
    /\ polls' = [polls EXCEPT ![t] =
                    (@ \ {"waiting"}) \cup {IF t \in settled THEN "final" ELSE "other"}]
    /\ UNCHANGED <<settled, post, button, timers, current, lost>>

(* An error answer has no status, which to the form is one that is not      *)
(* final.                                                                   *)
AnswerPollError(t) ==
    /\ "waiting" \in polls[t]
    /\ lost < MaxLost
    /\ lost' = lost + 1
    /\ polls' = [polls EXCEPT ![t] = (@ \ {"waiting"}) \cup {"other"}]
    /\ UNCHANGED <<settled, post, button, timers, current>>

-------------------------------------------------------------------------------
(* submitTranscript.                                                        *)

Submit(t) ==
    /\ button = "ready"
    /\ post[t] = "none"
    /\ \A s \in Submissions : s < t => post[s] # "none"
    /\ button' = "busy"
    /\ post' = [post EXCEPT ![t] = "sent"]
    /\ UNCHANGED <<settled, timers, current, polls, lost>>

(* Mutant: the interval of an earlier submission is not cleared.            *)
StartPollingBeside(t) ==
    /\ post[t] = "created"
    /\ post' = [post EXCEPT ![t] = "over"]
    /\ timers' = timers \cup {t}
    /\ current' = t
    /\ polls' = [polls EXCEPT ![t] = @ \cup {"waiting"}]
    /\ UNCHANGED <<settled, button, lost>>

(* The POST succeeded: pollStatus clears the current interval, polls once   *)
(* and starts an interval of its own.                                       *)
StartPolling(t) ==
    /\ post[t] = "created"
    /\ post' = [post EXCEPT ![t] = "over"]
    /\ timers' = (timers \ {current}) \cup {t}
    /\ current' = t
    /\ polls' = [polls EXCEPT ![t] = @ \cup {"waiting"}]
    /\ UNCHANGED <<settled, button, lost>>

(* Mutant: only a final status enables the button.                          *)
PostRefusedBusy(t) ==
    /\ post[t] = "refused"
    /\ post' = [post EXCEPT ![t] = "over"]
    /\ UNCHANGED <<settled, button, timers, current, polls, lost>>

PostRefused(t) ==
    /\ post[t] = "refused"
    /\ post' = [post EXCEPT ![t] = "over"]
    /\ button' = "ready"
    /\ UNCHANGED <<settled, timers, current, polls, lost>>

(* fetch rejects: the connection failed, before or after the server acted.  *)
PostLost(t) ==
    /\ post[t] \in {"sent", "created", "refused"}
    /\ lost < MaxLost
    /\ lost' = lost + 1
    /\ post' = [post EXCEPT ![t] = "over"]
    /\ button' = "ready"
    /\ UNCHANGED <<settled, timers, current, polls>>

-------------------------------------------------------------------------------
(* pollStatus: the interval fires whether or not its last fetch is back.    *)

Poll(t) ==
    /\ t \in timers
    /\ "waiting" \notin polls[t]
    /\ polls' = [polls EXCEPT ![t] = @ \cup {"waiting"}]
    /\ UNCHANGED <<settled, post, button, timers, current, lost>>

(* Mutant: only a final status of the current submission enables the button.*)
ReceiveStatusBusy(t, answer) ==
    /\ answer \in polls[t]
    /\ polls' = [polls EXCEPT ![t] = @ \ {answer}]
    /\ timers' = IF answer = "final" THEN timers \ {current} ELSE timers
    /\ button' = IF answer = "final" /\ t = current THEN "ready" ELSE button
    /\ UNCHANGED <<settled, post, current, lost>>

(* A status arrives, about whichever submission.  A final one clears        *)
(* whatever interval is the current one and enables the button.             *)
ReceiveStatus(t, answer) ==
    /\ answer \in polls[t]
    /\ polls' = [polls EXCEPT ![t] = @ \ {answer}]
    /\ IF answer = "final"
       THEN timers' = timers \ {current} /\ button' = "ready"
       ELSE UNCHANGED <<timers, button>>
    /\ UNCHANGED <<settled, post, current, lost>>

LoseStatus(t) ==
    /\ lost < MaxLost
    /\ lost' = lost + 1
    /\ \E answer \in polls[t] : polls' = [polls EXCEPT ![t] = @ \ {answer}]
    /\ UNCHANGED <<settled, post, button, timers, current>>

-------------------------------------------------------------------------------

PostStep(t) == AnswerPost(t) \/ StartPolling(t) \/ PostRefused(t)

Receive(t) == \E answer \in Answers : ReceiveStatus(t, answer)

FormNext ==
    \E t \in Submissions :
        \/ Submit(t) \/ PostStep(t) \/ FinishJob(t) \/ ReopenJob(t)
        \/ Poll(t) \/ AnswerPoll(t) \/ Receive(t)
        \/ PostLost(t) \/ AnswerPollError(t) \/ LoseStatus(t)

(* The server answers, what is not lost arrives, and intervals fire.  Which *)
(* answer arrives first is left open, and so is whether a job ends and what *)
(* the user does.                                                           *)
FormFairness ==
    \A t \in Submissions :
        /\ WF_formVars(PostStep(t)) /\ WF_formVars(Poll(t))
        /\ WF_formVars(AnswerPoll(t)) /\ WF_formVars(Receive(t))

FormSpec == FormInit /\ [][FormNext]_formVars /\ FormFairness

-------------------------------------------------------------------------------

(* At most one interval polls a status, and it is the one that the page can *)
(* clear: a late answer about an earlier transcript may enable the button   *)
(* while a POST is under way, so that two submissions start polling, and    *)
(* still no interval is left behind (pollStatus).                           *)
NoLeakedTimer == timers \subseteq {current}

(* While the button is disabled, a POST is under way or an interval polls:  *)
(* no order of answers clears the interval and leaves the button to nobody  *)
(* (submitTranscript, pollStatus).                                          *)
BusyHasCause ==
    button = "busy" =>
        timers # {} \/ \E t \in Submissions : post[t] \in {"sent", "created", "refused"}

(* The button stays disabled for ever only on account of a transcript that  *)
(* an interval polls for ever and that never comes to rest as completed or  *)
(* failed.  Nothing else does it: a late answer may clear the interval that *)
(* should have enabled the button, a POST may be refused and answers may be *)
(* lost, but whoever ends the polling also enables the button (pollStatus,  *)
(* submitTranscript).                                                       *)
ButtonReturns ==
    \/ []<>(button = "ready")
    \/ \E t \in Submissions : []<>(t \in timers /\ t \notin settled)

(* The page does not poll for ever a transcript that has come to rest,      *)
(* whatever becomes of the other submissions (pollStatus).                  *)
PollingEnds ==
    \A t \in Submissions : <>[](t \notin timers) \/ []<>(t \notin settled)
===============================================================================
