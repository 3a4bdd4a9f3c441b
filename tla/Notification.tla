---------------------------- MODULE Notification ----------------------------
(***************************************************************************)
(* notification-service: a message is rendered from a template, handed to  *)
(* the provider of the channel that the request names (the channel of the  *)
(* template is not looked at), and logged as SENT or FAILED.  Reading the  *)
(* template, the provider and the INSERT of the log are steps of their     *)
(* own.  The provider may take the message and its answer still be lost,   *)
(* the row may be inserted and the answer be lost, and the caller of an    *)
(* attempt that failed may ask again.                                      *)
(*                                                                         *)
(* An event of tracking.status_updated is a request for PUSH whose         *)
(* template id is the type of the event.  A template is the version that   *)
(* was written last: subject and body are written together.                *)
(***************************************************************************)
EXTENDS Naturals, FiniteSets

CONSTANTS
    Sends,          \* POST /notifications/send
    StatusEvents,   \* messages of the topic tracking.status_updated
    TemplateCreates, TemplateEdits, \* POST and PUT /notifications/templates
    Templates,      \* template ids
    SeedTemplates,  \* those that are in the table at the start
    Channels, Push, \* the channels, and the one that events use
    NoTemplate,     \* no such row, or nothing read yet
    MaxAttempts     \* bound: MaxAttempts[m] is how often the caller of m asks

Messages == Sends \cup StatusEvents
Versions == TemplateCreates \cup TemplateEdits \cup SeedTemplates

ASSUME NotificationAssumption ==
    /\ SeedTemplates \subseteq Templates
    /\ Push \in Channels
    /\ NoTemplate \notin Versions \cup Channels
    /\ MaxAttempts \in [Messages -> Nat \ {0}]
    /\ Messages \cap (TemplateCreates \cup TemplateEdits) = {}

VARIABLES
    templates,  \* table notification_templates: the version of each
    logs,       \* table notification_logs
    at,         \* at[q] : the next step of request q, or its answer
    attempt,    \* attempt[m] : how often the caller has asked
    draft,      \* draft[m] : the channel and the version read
    refused,    \* refused[m] : the provider returned an error
    taken       \* the messages that the providers took

notificationVars == <<templates, logs, at, attempt, draft, refused, taken>>

Draft == [channel : Channels, version : Versions]
NoDraft == [channel |-> NoTemplate, version |-> NoTemplate]

\* What a provider took, and, with a status, a row of the log.
Sending(m) == [of |-> m, attempt |-> attempt[m],
               channel |-> draft[m].channel, version |-> draft[m].version]
LogRow(m, status) == [sent |-> Sending(m), status |-> status]

NotificationInit ==
    /\ templates = [t \in Templates |-> IF t \in SeedTemplates THEN t ELSE NoTemplate]
    /\ logs = {}
    /\ at = [q \in Messages \cup TemplateCreates \cup TemplateEdits |-> "start"]
    /\ attempt = [m \in Messages |-> 1]
    /\ draft = [m \in Messages |-> NoDraft]
    /\ refused = [m \in Messages |-> FALSE]
    /\ taken = {}

Go(q, from, to) == at[q] = from /\ at' = [at EXCEPT ![q] = to]

-----------------------------------------------------------------------------
(* Sending                                                                  *)

\* 404 for an unknown template, 500 if the query fails: nothing is logged.
GetTemplateByID(m, t, c) ==
    /\ \/ /\ templates[t] # NoTemplate
          /\ draft' = [draft EXCEPT ![m] = [channel |-> c, version |-> templates[t]]]
          /\ Go(m, "start", "provider")
       \/ Go(m, "start", "failed") /\ UNCHANGED draft
    /\ UNCHANGED <<templates, logs, attempt, refused, taken>>

\* An answer other than 2xx is an error, as is none.
SendToProvider(m) ==
    /\ Go(m, "provider", "log")
    /\ \E took, fails \in BOOLEAN :
          /\ ~fails => took
          /\ taken' = IF took THEN taken \cup {Sending(m)} ELSE taken
          /\ refused' = [refused EXCEPT ![m] = fails]
    /\ UNCHANGED <<templates, logs, attempt, draft>>

\* Mutant: the row says SENT whatever the provider said.
CreateNotificationLog_AlwaysSent(m) ==
    /\ logs' = logs \cup {LogRow(m, "SENT")}
    /\ Go(m, "log", IF refused[m] THEN "failed" ELSE "ok")
    /\ draft' = [draft EXCEPT ![m] = NoDraft]
    /\ refused' = [refused EXCEPT ![m] = FALSE]
    /\ UNCHANGED <<templates, attempt, taken>>

\* Whatever the provider said, an error of the INSERT is the answer; then its.
CreateNotificationLog(m) ==
    LET status == IF refused[m] THEN "FAILED" ELSE "SENT"
    IN  /\ \/ /\ logs' = logs \cup {LogRow(m, status)}
              /\ Go(m, "log", IF refused[m] THEN "failed" ELSE "ok")
           \/ /\ logs' \in {logs, logs \cup {LogRow(m, status)}}
              /\ Go(m, "log", "failed")
        /\ draft' = [draft EXCEPT ![m] = NoDraft]
        /\ refused' = [refused EXCEPT ![m] = FALSE]
        /\ UNCHANGED <<templates, attempt, taken>>

\* The caller asks again, as Kafka does for an event whose handler failed.
AskAgain(m) ==
    /\ Go(m, "failed", "start")
    /\ attempt[m] < MaxAttempts[m]
    /\ attempt' = [attempt EXCEPT ![m] = @ + 1]
    /\ UNCHANGED <<templates, logs, draft, refused, taken>>

-----------------------------------------------------------------------------
(* Templates                                                                *)

\* The id is new.  A statement may fail before or after it has taken effect.
CreateTemplate(c, t) ==
    /\ templates[t] = NoTemplate
    /\ \/ /\ templates' = [templates EXCEPT ![t] = c]
          /\ \E answer \in {"ok", "failed"} : Go(c, "start", answer)
       \/ UNCHANGED templates /\ Go(c, "start", "failed")
    /\ UNCHANGED <<logs, attempt, draft, refused, taken>>

\* Templates are never removed, so the check and the UPDATE are one step.
\* Both columns are written, also with the empty text of a field left out.
UpdateTemplate(e, t) ==
    /\ \/ /\ templates[t] # NoTemplate
          /\ templates' = [templates EXCEPT ![t] = e]
          /\ \E answer \in {"ok", "failed"} : Go(e, "start", answer)
       \/ UNCHANGED templates /\ Go(e, "start", "failed")
    /\ UNCHANGED <<logs, attempt, draft, refused, taken>>

SendNotification(m, c) ==
    \/ \E t \in Templates : GetTemplateByID(m, t, c)
    \/ SendToProvider(m)
    \/ CreateNotificationLog(m)

SendStep(m) == \E c \in Channels : SendNotification(m, c)

HandleTrackingStatusUpdated(m) == SendNotification(m, Push)

TemplateStep(t) ==
    \/ \E c \in TemplateCreates : CreateTemplate(c, t)
    \/ \E e \in TemplateEdits : UpdateTemplate(e, t)

NotificationNext ==
    \/ \E m \in Sends : SendStep(m)
    \/ \E m \in StatusEvents : HandleTrackingStatusUpdated(m)
    \/ \E m \in Messages : AskAgain(m)
    \/ \E t \in Templates : TemplateStep(t)

NotificationSpec == NotificationInit /\ [][NotificationNext]_notificationVars
-----------------------------------------------------------------------------
(* Properties                                                               *)

NotificationTypeOK ==
    /\ templates \in [Templates -> Versions \cup {NoTemplate}]
    /\ \A row \in logs : row.sent.of \in Messages /\ row.status \in {"SENT", "FAILED"}
    /\ at \in [Messages \cup TemplateCreates \cup TemplateEdits ->
                  {"start", "provider", "log", "ok", "failed"}]
    /\ attempt \in [Messages -> Nat]
    /\ draft \in [Messages -> Draft \cup {NoDraft}]
    /\ refused \in [Messages -> BOOLEAN]
    /\ \A sent \in taken : sent.of \in Messages /\ sent.attempt <= attempt[sent.of]

\* The log, the providers and the answers agree as far as the code makes them:
\* a SENT row is of a message that a provider took with that very channel and
\* version, however often the template was edited since; an attempt has one row
\* at most; a request answered 200 has a SENT row; and a message that a
\* provider took without a SENT row is of an attempt that is not over, or that
\* was answered with an error.
LogsAgree ==
    /\ \A row \in logs :
          /\ row.status = "SENT" => row.sent \in taken
          /\ \A other \in logs :
                row.sent.of = other.sent.of /\ row.sent.attempt = other.sent.attempt
                    => row = other
    /\ \A m \in Messages : at[m] = "ok" =>
          \E row \in logs : row.sent.of = m /\ row.sent.attempt = attempt[m]
                            /\ row.status = "SENT"
    /\ \A sent \in taken : [sent |-> sent, status |-> "SENT"] \notin logs =>
          sent.attempt < attempt[sent.of] \/ at[sent.of] \in {"log", "failed"}
=============================================================================
