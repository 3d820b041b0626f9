--------------------------- MODULE AgentSessions ----------------------------
(***************************************************************************)
(* Agent sessions: the daemon's store of sessions with their queues of     *)
(* messages, the dashboard's requests to share a message, and run_proxy,   *)
(* which wraps an agent in a pseudo-terminal, polls its session and types  *)
(* what it gets into the terminal.                                         *)
(*                                                                         *)
(* Every method of the store first drops the sessions whose process is     *)
(* gone.  A poll drains the queue: what the reply carries is nowhere else. *)
(***************************************************************************)
EXTENDS Integers, Sequences, FiniteSets, FiniteSetsExt

CONSTANTS
    Agents,           \* runs of `devstack agent`, each with a fresh random id
    Messages,         \* messages to share, one request each
    NoAgent,
    MaxDaemonRestarts

ASSUME AgentAssumption == NoAgent \notin Agents /\ MaxDaemonRestarts \in Nat

VARIABLES
    session,          \* AgentSessionState by agent: present, order of creation, queue
    prox,             \* run_proxy: where it is, whether it registered
    child,            \* the wrapped process: "none", "alive", "dead"
    poll,             \* the poll task: "off", "idle", "asked", "reply"
    hand,             \* the messages of a reply under way
    senders,          \* who can still send into the channel of the writer task
    chan,             \* the channel
    pty,              \* what was typed
    ptyOpen,          \* a process holds the terminal open
    request,          \* share requests: where they are, the session found
    daemonRestarts,
    cut               \* ghost: agents whose delivery was interrupted

agentVars == <<session, prox, child, poll, hand, senders, chan, pty, ptyOpen,
               request, daemonRestarts, cut>>

NoSession == [present |-> FALSE, created |-> 0, queue |-> <<>>]

\* `created` orders the sessions and is not restricted.
AgentTypeOK ==
    /\ session = [a \in Agents |-> [present |-> session[a].present, created |-> session[a].created,
                                     queue |-> session[a].queue]]
    /\ \A a \in Agents : session[a].present \in BOOLEAN /\ session[a].queue \in Seq(Messages)
    /\ prox \in [Agents -> [at : {"new", "registering", "running", "closing", "reading",
                                 "unregister", "done", "killed"}, registered : BOOLEAN]]
    /\ child \in [Agents -> {"none", "alive", "dead"}]
    /\ poll \in [Agents -> {"off", "idle", "asked", "reply"}]
    /\ hand \in [Agents -> Seq(Messages)]
    /\ senders \in [Agents -> SUBSET {"main", "stdin", "poll"}]
    /\ chan \in [Agents -> Seq(Messages)]
    /\ pty \in [Agents -> Seq(Messages)]
    /\ ptyOpen \in [Agents -> BOOLEAN]
    /\ request \in [Messages -> [at : {"new", "found", "accepted", "refused"},
                                 to : Agents \cup {NoAgent}]]
    /\ daemonRestarts \in Nat
    /\ cut \subseteq Agents

AgentInit ==
    /\ session = [a \in Agents |-> NoSession]
    /\ prox = [a \in Agents |-> [at |-> "new", registered |-> FALSE]]
    /\ child = [a \in Agents |-> "none"]
    /\ poll = [a \in Agents |-> "off"]
    /\ hand = [a \in Agents |-> <<>>]
    /\ senders = [a \in Agents |-> {}]
    /\ chan = [a \in Agents |-> <<>>]
    /\ pty = [a \in Agents |-> <<>>]
    /\ ptyOpen = [a \in Agents |-> FALSE]
    /\ request = [m \in Messages |-> [at |-> "new", to |-> NoAgent]]
    /\ daemonRestarts = 0
    /\ cut = {}

(***************************************************************************)
(* The store, and the requests of the dashboard.                           *)
(***************************************************************************)
cleanup_stale_sessions ==
    [a \in Agents |-> IF child[a] = "alive" THEN session[a] ELSE NoSession]

LiveAgents == {a \in Agents : cleanup_stale_sessions[a].present}

\* share_agent_message: the latest session, or (post_agent_message) one named by its id
find_latest_for_project(m) ==
    /\ request[m].at = "new"
    /\ session' = cleanup_stale_sessions
    /\ \E a \in LiveAgents \cup {NoAgent} :
         /\ a = NoAgent => LiveAgents = {}
         /\ a # NoAgent => \A b \in LiveAgents : session[b].created <= session[a].created
         /\ request' = [request EXCEPT ![m] = [at |-> IF a = NoAgent THEN "refused" ELSE "found", to |-> a]]
    /\ UNCHANGED <<prox, child, poll, hand, senders, chan, pty, ptyOpen, daemonRestarts, cut>>

queue_message(m) ==
    LET a == request[m].to IN
    /\ request[m].at = "found"
    /\ session' = IF a \in LiveAgents
                  THEN [cleanup_stale_sessions EXCEPT ![a].queue = Append(@, m)]
                  ELSE cleanup_stale_sessions
    /\ request' = [request EXCEPT ![m].at = IF a \in LiveAgents THEN "accepted" ELSE "refused"]
    /\ UNCHANGED <<prox, child, poll, hand, senders, chan, pty, ptyOpen, daemonRestarts, cut>>

(***************************************************************************)
(* run_proxy: start                                                        *)
(***************************************************************************)
SpawnAgent(a) ==
    /\ prox[a].at = "new"
    /\ prox' = [prox EXCEPT ![a].at = "registering"]
    /\ child' = [child EXCEPT ![a] = "alive"]
    /\ ptyOpen' = [ptyOpen EXCEPT ![a] = TRUE]
    /\ UNCHANGED <<session, poll, hand, senders, chan, pty, request, daemonRestarts, cut>>

\* A refused registration is a warning: the proxy goes on without a poll task.
register_session(a) ==
    /\ prox[a].at = "registering"
    /\ \E ok \in BOOLEAN :
         /\ prox' = [prox EXCEPT ![a] = [at |-> "running", registered |-> ok]]
         /\ session' = IF ok
                       THEN [cleanup_stale_sessions EXCEPT ![a] =
                               [present |-> TRUE, queue |-> <<>>,
                                created |-> 1 + Max({session[b].created : b \in Agents})]]
                       ELSE session
         /\ poll' = [poll EXCEPT ![a] = IF ok THEN "idle" ELSE "off"]
         /\ senders' = [senders EXCEPT ![a] = {"main", "stdin"} \cup IF ok THEN {"poll"} ELSE {}]
    /\ UNCHANGED <<child, hand, chan, pty, ptyOpen, request, daemonRestarts, cut>>

(***************************************************************************)
(* The tasks of a running proxy.                                           *)
(***************************************************************************)
PollAsks(a) ==
    /\ poll[a] = "idle"
    /\ poll' = [poll EXCEPT ![a] = "asked"]
    /\ UNCHANGED <<session, prox, child, hand, senders, chan, pty, ptyOpen, request, daemonRestarts, cut>>

\* Faulty variant: a poll answers with the first message and drops the queue.
DrainFirst(q) == SubSeq(q, 1, Min({1, Len(q)}))

drain_messages(q) == q

\* a session that is gone is an error, which the task ignores
poll_messages(a) ==
    /\ poll[a] = "asked"
    /\ session' = [cleanup_stale_sessions EXCEPT ![a].queue = <<>>]
    /\ hand' = [hand EXCEPT ![a] = IF a \in LiveAgents THEN drain_messages(session[a].queue) ELSE <<>>]
    /\ poll' = [poll EXCEPT ![a] = IF a \in LiveAgents THEN "reply" ELSE "idle"]
    /\ UNCHANGED <<prox, child, senders, chan, pty, ptyOpen, request, daemonRestarts, cut>>

PollReturns(a) ==
    /\ poll[a] = "reply"
    /\ chan' = [chan EXCEPT ![a] = @ \o hand[a]]
    /\ hand' = [hand EXCEPT ![a] = <<>>]
    /\ poll' = [poll EXCEPT ![a] = "idle"]
    /\ UNCHANGED <<session, prox, child, senders, pty, ptyOpen, request, daemonRestarts, cut>>

WriterTypes(a) ==
    /\ chan[a] # <<>> /\ prox[a].at \in {"running", "closing"}
    /\ pty' = [pty EXCEPT ![a] = Append(@, Head(chan[a]))]
    /\ chan' = [chan EXCEPT ![a] = Tail(@)]
    /\ UNCHANGED <<session, prox, child, poll, hand, senders, ptyOpen, request, daemonRestarts, cut>>

PollTask(a) == PollAsks(a) \/ PollReturns(a)

(***************************************************************************)
(* run_proxy: the end                                                      *)
(***************************************************************************)
\* The process ends by itself or by the SIGTERM the proxy passes on.
ChildExits(a) ==
    /\ child[a] = "alive"
    /\ child' = [child EXCEPT ![a] = "dead"]
    /\ cut' = cut \cup {a}
    /\ UNCHANGED <<session, prox, poll, hand, senders, chan, pty, ptyOpen, request, daemonRestarts>>

\* The descendants of the process that share its terminal end too.
TerminalCloses(a) ==
    /\ child[a] = "dead" /\ ptyOpen[a]
    /\ ptyOpen' = [ptyOpen EXCEPT ![a] = FALSE]
    /\ UNCHANGED <<session, prox, child, poll, hand, senders, chan, pty, request, daemonRestarts, cut>>

\* Faulty variant: the task that reads the standard input is not aborted.
StopAllButStdin(a) ==
    /\ prox[a].at = "running" /\ child[a] = "dead"
    /\ prox' = [prox EXCEPT ![a].at = "closing"]
    /\ senders' = [senders EXCEPT ![a] = {"stdin"}]
    /\ poll' = [poll EXCEPT ![a] = "off"]
    /\ hand' = [hand EXCEPT ![a] = <<>>]
    /\ UNCHANGED <<session, child, chan, pty, ptyOpen, request, daemonRestarts, cut>>

\* the tasks are aborted with the reply they may hold, and their senders with them
StopTasks(a) ==
    /\ prox[a].at = "running" /\ child[a] = "dead"
    /\ prox' = [prox EXCEPT ![a].at = "closing"]
    /\ senders' = [senders EXCEPT ![a] = {}]
    /\ poll' = [poll EXCEPT ![a] = "off"]
    /\ hand' = [hand EXCEPT ![a] = <<>>]
    /\ UNCHANGED <<session, child, chan, pty, ptyOpen, request, daemonRestarts, cut>>

\* writer_task ends when the channel is empty and closed, or at a failed write
WriterEnds(a) ==
    /\ prox[a].at = "closing"
    /\ (senders[a] = {} /\ chan[a] = <<>>) \/ (chan[a] # <<>> /\ ~ptyOpen[a])
    /\ chan' = [chan EXCEPT ![a] = <<>>]
    /\ prox' = [prox EXCEPT ![a].at = "reading"]
    /\ UNCHANGED <<session, child, poll, hand, senders, pty, ptyOpen, request, daemonRestarts, cut>>

ReaderEnds(a) ==
    /\ prox[a].at = "reading" /\ ~ptyOpen[a]
    /\ prox' = [prox EXCEPT ![a].at = IF prox[a].registered THEN "unregister" ELSE "done"]
    /\ UNCHANGED <<session, child, poll, hand, senders, chan, pty, ptyOpen, request, daemonRestarts, cut>>

unregister_session(a) ==
    /\ prox[a].at = "unregister"
    /\ session' = [cleanup_stale_sessions EXCEPT ![a] = NoSession]
    /\ prox' = [prox EXCEPT ![a].at = "done"]
    /\ UNCHANGED <<child, poll, hand, senders, chan, pty, ptyOpen, request, daemonRestarts, cut>>

\* The proxy is killed; the agent may live on, and so does its session.
ProxyKilled(a) ==
    /\ prox[a].at = "running"
    /\ prox' = [prox EXCEPT ![a].at = "killed"]
    /\ poll' = [poll EXCEPT ![a] = "off"]
    /\ hand' = [hand EXCEPT ![a] = <<>>]
    /\ chan' = [chan EXCEPT ![a] = <<>>]
    /\ senders' = [senders EXCEPT ![a] = {}]
    /\ cut' = cut \cup {a}
    /\ UNCHANGED <<session, child, pty, ptyOpen, request, daemonRestarts>>

\* Sessions are not persisted and no proxy registers a second time.
DaemonForgets ==
    /\ daemonRestarts < MaxDaemonRestarts
    /\ daemonRestarts' = daemonRestarts + 1
    /\ session' = [a \in Agents |-> NoSession]
    /\ poll' = [a \in Agents |-> IF poll[a] = "off" THEN "off" ELSE "idle"]
    /\ hand' = [a \in Agents |-> <<>>]
    /\ request' = [m \in Messages |-> IF request[m].at = "found"
                                      THEN [request[m] EXCEPT !.at = "refused"] ELSE request[m]]
    /\ cut' = cut \cup {a \in Agents : session[a].present \/ hand[a] # <<>>}
    /\ UNCHANGED <<prox, child, senders, chan, pty, ptyOpen>>

run_proxy(a) ==
    \/ SpawnAgent(a) \/ register_session(a)
    \/ StopTasks(a) \/ WriterEnds(a) \/ ReaderEnds(a) \/ unregister_session(a)

AgentNext ==
    \/ \E m \in Messages : find_latest_for_project(m) \/ queue_message(m)
    \/ \E a \in Agents :
         \/ run_proxy(a) \/ PollTask(a) \/ poll_messages(a) \/ WriterTypes(a)
         \/ ChildExits(a) \/ TerminalCloses(a) \/ ProxyKilled(a)
    \/ DaemonForgets

\* The tasks of a proxy and the handlers of the daemon are scheduled.  Whether a
\* process ever closes the terminal is up to it: it is assumed here.
AgentFairness ==
    \A a \in Agents :
        /\ WF_agentVars(PollTask(a)) /\ WF_agentVars(poll_messages(a))
        /\ WF_agentVars(WriterTypes(a)) /\ WF_agentVars(TerminalCloses(a))
        /\ WF_agentVars(StopTasks(a) \/ WriterEnds(a) \/ ReaderEnds(a) \/ unregister_session(a))

AgentSpec == AgentInit /\ [][AgentNext]_agentVars /\ AgentFairness

(***************************************************************************)
(* Properties                                                              *)
(***************************************************************************)
Mailbox == INSTANCE AgentMailbox WITH
    accepted <- {m \in Messages : request[m].at = "accepted"},
    inbox <- [a \in Agents |-> chan[a] \o hand[a] \o cleanup_stale_sessions[a].queue],
    typed <- pty,
    interrupted <- cut

\* Store, poll task and writer together deliver what AgentMailbox promises: a
\* message of a share request reaches the terminal at most once and in order, and
\* is lost only if the agent, its proxy or the daemon ends.
DeliversAsMailbox == Mailbox!MailboxSpec

\* When the wrapped process has ended, run_proxy returns: the writer it waits for
\* sees the channel close, which takes every other task to let go of its sender.
ProxyReturns ==
    \A a \in Agents : prox[a].at = "running" /\ child[a] = "dead" ~> prox[a].at \in {"done", "killed"}
=============================================================================
