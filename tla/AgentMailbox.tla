---------------------------- MODULE AgentMailbox ----------------------------
(***************************************************************************)
(* What sharing a message with a wrapped agent promises: an accepted       *)
(* message joins the agent's inbox and messages are typed into its         *)
(* terminal in that order, each at most once.  Messages are lost only when *)
(* the delivery is interrupted (the agent, its proxy or the daemon ends),  *)
(* and an agent that is not interrupted gets every one of them.            *)
(***************************************************************************)
EXTENDS Naturals, Sequences

CONSTANTS Agents, Messages

VARIABLES accepted, inbox, typed, interrupted

mailboxVars == <<accepted, inbox, typed, interrupted>>

MailboxInit ==
    /\ accepted = {}
    /\ inbox = [a \in Agents |-> <<>>]
    /\ typed = [a \in Agents |-> <<>>]
    /\ interrupted = {}

Accept(a, m) ==
    /\ m \notin accepted
    /\ accepted' = accepted \cup {m}
    /\ inbox' = [inbox EXCEPT ![a] = Append(@, m)]
    /\ UNCHANGED <<typed, interrupted>>

TypeNext(a) ==
    /\ inbox[a] # <<>>
    /\ typed' = [typed EXCEPT ![a] = Append(@, Head(inbox[a]))]
    /\ inbox' = [inbox EXCEPT ![a] = Tail(@)]
    /\ UNCHANGED <<accepted, interrupted>>

\* r is what is left of s after some messages were lost, in the old order
Remainder(r, s) ==
    \E f \in [DOMAIN r -> DOMAIN s] :
        /\ \A i, j \in DOMAIN r : i < j => f[i] < f[j]
        /\ \A i \in DOMAIN r : r[i] = s[f[i]]

Interrupt(A) ==
    /\ interrupted' = interrupted \cup A
    /\ inbox' \in [Agents -> Seq(Messages)]
    /\ \A a \in Agents : IF a \in A THEN Remainder(inbox'[a], inbox[a])
                         ELSE inbox'[a] = inbox[a]
    /\ UNCHANGED <<accepted, typed>>

MailboxNext ==
    \/ \E a \in Agents, m \in Messages : Accept(a, m)
    \/ \E a \in Agents : TypeNext(a)
    \/ \E A \in SUBSET Agents : Interrupt(A)

\* an agent whose delivery goes on undisturbed
Served(a) == a \notin interrupted /\ TypeNext(a)

MailboxSafety == MailboxInit /\ [][MailboxNext]_mailboxVars

MailboxSpec ==
    /\ MailboxSafety
    /\ \A a \in Agents : WF_mailboxVars(Served(a))
=============================================================================
