------------------------------ MODULE Messaging ------------------------------
(***************************************************************************)
(* fork message send / broadcast / receive / cleanup and their MCP tools:  *)
(* the message store, the temporary files and the pane option of the       *)
(* short protocol.                                                         *)
(*                                                                         *)
(* Message m is the m-th created, so a smaller number is an older one.     *)
(* Each transaction, file and tmux command is a step.  The age limits are  *)
(* clocks: aged and expired are the newest messages that are more than     *)
(* five minutes and more than the time to live old.  Nothing is ever       *)
(* stored for the address "*": send takes session:window only.  That also  *)
(* refuses the pane of send-to-pane, whose text is typed and not stored.   *)
(***************************************************************************)
EXTENDS Nothing, Naturals, FiniteSets

CONSTANTS
  Peers,        \* processes that send or receive
  Inboxes,      \* session:window
  MaxMessages,  \* bound: messages created
  MaxTotal,     \* MAX_TOTAL_MESSAGES
  Limit         \* messages a receive may return

ASSUME MessagingAssumption ==
  /\ MaxMessages \in Nat /\ MaxTotal \in Nat \ {0} /\ Limit \in Nat \ {0}
  /\ None \notin Inboxes

VARIABLES
  sent,       \* messages created
  address,    \* to_agent
  message,    \* the rows of the messages table
  aged, expired,
  handed,     \* messages some receiver was shown
  file,       \* fork-messages: the files that exist
  signal,     \* @last_fork_msg of each pane
  window,     \* the panes that exist
  peer        \* what each process is doing

clockVars == <<aged, expired>>
noticeVars == <<file, signal, window>>
messagingVars == <<sent, address, message, clockVars, handed, noticeVars, peer>>

-----------------------------------------------------------------------------

Messages == 1..MaxMessages

PeerSteps ==
  {"idle", "sweep", "insert", "maintain", "encode", "check", "notify", "show", "remove",
   "mark", "reply"}

\* got: what a receiver fetched; panes: what a broadcast has still to reach;
\* again: it will be repeated.
Errand == [at : PeerSteps, msg : 0..MaxMessages, got : SUBSET Messages,
           panes : SUBSET Inboxes, again : BOOLEAN, tool : BOOLEAN]
NoErrand == [at |-> "idle", msg |-> 0, got |-> {}, panes |-> {}, again |-> FALSE,
             tool |-> FALSE]

\* The type invariant, with the hard cap of the table.
MessagingTypeOK ==
  /\ sent \in 0..MaxMessages
  /\ address \in [Messages -> Inboxes \cup {None}]
  /\ message \in [Messages -> {"none", "unread", "read"}]
  /\ Cardinality({m \in Messages : message[m] # "none"}) <= MaxTotal
  /\ expired \in 0..aged /\ aged \in 0..sent
  /\ handed \subseteq Messages
  /\ file \subseteq Messages
  /\ signal \in [Inboxes -> 0..MaxMessages]
  /\ window \subseteq Inboxes
  /\ peer \in [Peers -> Errand]

MessagingInit ==
  /\ sent = 0 /\ address = [m \in Messages |-> None]
  /\ message = [m \in Messages |-> "none"]
  /\ aged = 0 /\ expired = 0
  /\ handed = {} /\ file = {}
  /\ signal = [i \in Inboxes |-> 0]
  /\ window = Inboxes
  /\ peer = [q \in Peers |-> NoErrand]

On(q, step) == peer[q].at = step

Then(q, step) == peer' = [peer EXCEPT ![q].at = step]

Free(q) == On(q, "idle") /\ peer[q].panes = {} /\ ~peer[q].again

\* A broadcast goes on to its next pane, anything else is over.
Finish(q) ==
  peer' = [peer EXCEPT ![q] = [NoErrand EXCEPT !.panes = peer[q].panes,
                                               !.again = peer[q].again]]

Rows == {m \in Messages : message[m] # "none"}

Drop(S) == message' = [m \in Messages |-> IF m \in S THEN "none" ELSE message[m]]

-----------------------------------------------------------------------------
(* Sending *)

\* AgentMessage.create, with the time of creation.
CreateMessage(q, i) ==
  /\ sent < MaxMessages
  /\ sent' = sent + 1
  /\ address' = [address EXCEPT ![sent + 1] = i]
  /\ UNCHANGED <<message, clockVars, handed, noticeVars>>

send(q, i) ==
  /\ Free(q)
  /\ CreateMessage(q, i)
  /\ peer' = [peer EXCEPT ![q] = [NoErrand EXCEPT !.at = "sweep", !.msg = sent + 1]]

\* The panes are listed once, then sent to one after the other.
StartBroadcast(q, again) ==
  /\ \E panes \in SUBSET window :
       peer' = [peer EXCEPT ![q].panes = panes, ![q].again = again]
  /\ UNCHANGED <<sent, address, message, clockVars, handed, noticeVars>>

broadcast(q) == Free(q) /\ StartBroadcast(q, FALSE)

\* The hybrid front end cannot read the server's answer, a dictionary, as a
\* count, takes that for a failure and broadcasts itself.
dispatch_message_broadcast(q) == Free(q) /\ StartBroadcast(q, TRUE)

BroadcastAgain(q) ==
  /\ On(q, "idle") /\ peer[q].panes = {} /\ peer[q].again
  /\ StartBroadcast(q, FALSE)

BroadcastNext(q) ==
  /\ On(q, "idle")
  /\ \E i \in peer[q].panes :
       /\ CreateMessage(q, i)
       /\ peer' = [peer EXCEPT ![q] = [NoErrand EXCEPT !.at = "sweep", !.msg = sent + 1,
                                                       !.panes = peer[q].panes \ {i},
                                                       !.again = peer[q].again]]

\* Mutant: the read flag is forgotten.
SweepAged(q) ==
  /\ On(q, "sweep")
  /\ Drop({m \in Rows : m <= aged})
  /\ Then(q, IF peer[q].msg = 0 THEN "maintain" ELSE "insert")
  /\ UNCHANGED <<sent, address, clockVars, handed, noticeVars>>

\* cleanup_expired: the expired rows, and the read ones that are aged.
cleanup_expired(q) ==
  /\ On(q, "sweep")
  /\ Drop({m \in Rows : m <= expired \/ (m <= aged /\ message[m] = "read")})
  /\ Then(q, IF peer[q].msg = 0 THEN "maintain" ELSE "insert")
  /\ UNCHANGED <<sent, address, clockVars, handed, noticeVars>>

\* The oldest rows but MaxTotal - 1.
Overflow ==
  {m \in Rows : Cardinality({n \in Rows : n > m}) >= MaxTotal - 1}

\* Room is made and the row inserted in one transaction.
save(q) ==
  /\ On(q, "insert")
  /\ message' = [m \in Messages |->
                   IF m = peer[q].msg THEN "unread"
                   ELSE IF m \in Overflow THEN "none" ELSE message[m]]
  /\ Then(q, "maintain")
  /\ UNCHANGED <<sent, address, clockVars, handed, noticeVars>>

\* cleanup_temp_files: the files older than --max-age, or, at most every 30
\* seconds and before a message is encoded, those of a minute ago.
Maintain(q) ==
  /\ On(q, "maintain")
  /\ file' \in {{m \in file : m > old} : old \in 0..sent}
  /\ IF peer[q].msg = 0 THEN Finish(q) ELSE Then(q, "encode")
  /\ UNCHANGED <<sent, address, message, clockVars, handed, signal, window>>

encode_message(q) ==
  /\ On(q, "encode")
  /\ \/ file' = file \cup {peer[q].msg} /\ Then(q, "check")
     \/ Finish(q) /\ UNCHANGED file
  /\ UNCHANGED <<sent, address, message, clockVars, handed, signal, window>>

\* tmux has-session: a message to nobody stays stored, send returns False.
CheckTarget(q) ==
  /\ On(q, "check")
  /\ IF address[peer[q].msg] \in window THEN Then(q, "notify") ELSE Finish(q)
  /\ UNCHANGED <<sent, address, message, clockVars, handed, noticeVars>>

\* tmux set-option replaces the reference of the message before.
Notify(q) ==
  /\ On(q, "notify")
  /\ LET i == address[peer[q].msg]
     IN signal' = IF i \in window THEN [signal EXCEPT ![i] = peer[q].msg] ELSE signal
  /\ Finish(q)
  /\ UNCHANGED <<sent, address, message, clockVars, handed, file, window>>

cleanup(q) ==
  /\ Free(q)
  /\ Then(q, "sweep")
  /\ UNCHANGED <<sent, address, message, clockVars, handed, noticeVars>>

-----------------------------------------------------------------------------
(* Receiving *)

\* The newest unread ones, expired or not.
get_for_agent(i) ==
  LET unread == {m \in Rows : address[m] = i /\ message[m] = "unread"}
  IN {m \in unread : Cardinality({n \in unread : n > m}) < Limit}

\* tool: fork_message_receive, which answers when it is done; otherwise the
\* command, which prints first.
receive(q, i, tool, mark) ==
  /\ Free(q)
  /\ get_for_agent(i) # {}
  /\ IF mark
     THEN /\ peer' = [peer EXCEPT ![q] = [NoErrand EXCEPT
                        !.at = IF tool THEN "mark" ELSE "show",
                        !.got = get_for_agent(i), !.tool = tool]]
          /\ UNCHANGED handed
     ELSE handed' = handed \cup get_for_agent(i) /\ UNCHANGED peer
  /\ UNCHANGED <<sent, address, message, clockVars, noticeVars>>

Show(q) ==
  /\ On(q, "show")
  /\ handed' = handed \cup peer[q].got
  /\ Then(q, "remove")
  /\ UNCHANGED <<sent, address, message, clockVars, noticeVars>>

\* receive --mark-read deletes for good.
delete_by_ids(q) ==
  /\ On(q, "remove")
  /\ Drop(peer[q].got)
  /\ Finish(q)
  /\ UNCHANGED <<sent, address, clockVars, handed, noticeVars>>

mark_as_read(q) ==
  /\ On(q, "mark")
  /\ message' = [m \in Messages |->
                   IF m \in peer[q].got /\ message[m] # "none" THEN "read" ELSE message[m]]
  /\ Then(q, "reply")
  /\ UNCHANGED <<sent, address, clockVars, handed, noticeVars>>

Reply(q) ==
  /\ On(q, "reply")
  /\ handed' = handed \cup peer[q].got
  /\ Finish(q)
  /\ UNCHANGED <<sent, address, message, clockVars, noticeVars>>

-----------------------------------------------------------------------------
(* The rest of the world *)

PeerDies(q) ==
  /\ peer[q] # NoErrand
  /\ peer' = [peer EXCEPT ![q] = NoErrand]
  /\ UNCHANGED <<sent, address, message, clockVars, handed, noticeVars>>

TimePasses ==
  /\ \/ aged < sent /\ aged' = aged + 1 /\ UNCHANGED expired
     \/ expired < aged /\ expired' = expired + 1 /\ UNCHANGED aged
  /\ UNCHANGED <<sent, address, message, handed, noticeVars, peer>>

\* A pane goes with its option, or comes up without one.
WindowChanges(i) ==
  /\ window' = IF i \in window THEN window \ {i} ELSE window \cup {i}
  /\ signal' = [signal EXCEPT ![i] = 0]
  /\ UNCHANGED <<sent, address, message, clockVars, handed, file, peer>>

\* The hybrid front end: the server knows to_agent as target and refuses, so
\* the process sends; what the server answers to a receive is shown, and when
\* no answer comes the process fetches what is still unread, marking nothing.
dispatch_message_send(q, i) == send(q, i)

dispatch_message_receive(q, i, mark) == receive(q, i, TRUE, mark) \/ receive(q, i, FALSE, FALSE)

\* What touches the table ...
Storing(q) ==
  \/ \E i \in Inboxes :
       \/ send(q, i)
       \/ \E tool, mark \in BOOLEAN : receive(q, i, tool, mark)
  \/ cleanup_expired(q) \/ save(q) \/ cleanup(q)
  \/ Show(q) \/ delete_by_ids(q) \/ mark_as_read(q) \/ Reply(q) \/ PeerDies(q)

\* The hybrid front end.
Dispatching(q) ==
  \/ dispatch_message_broadcast(q) \/ BroadcastAgain(q)
  \/ \E i \in Inboxes :
       \/ dispatch_message_send(q, i)
       \/ \E mark \in BOOLEAN : dispatch_message_receive(q, i, mark)

\* The rest of a send.
Noticing(q) ==
  \/ broadcast(q) \/ BroadcastNext(q)
  \/ Maintain(q) \/ encode_message(q) \/ CheckTarget(q) \/ Notify(q)

MessagingNext ==
  \/ \E q \in Peers : Storing(q) \/ Dispatching(q) \/ Noticing(q)
  \/ TimePasses
  \/ \E i \in Inboxes : WindowChanges(i)

MessagingSpec == MessagingInit /\ [][MessagingNext]_messagingVars

-----------------------------------------------------------------------------
(* Properties *)

\* "DB is the transport": a message nobody has been shown leaves the table
\* unread only because it expired or because MaxTotal - 1 newer ones are
\* stored, whatever arrives between a receiver's fetch and its deletion and
\* however many processes send and clean at once.
UnreadIsKept ==
  [][\A m \in Messages :
       message[m] = "unread" /\ message'[m] = "none" /\ m \notin handed
       => m <= expired \/ m \in Overflow]_messagingVars

=============================================================================
