----------------------------- MODULE PortRestart -----------------------------
(***************************************************************************)
(* The port process of main.rs under a supervisor that restarts it.  The  *)
(* process may die at any point of the loop (killed, out of memory: the   *)
(* `vec![0u8; len]` of read_frame aborts on a length it cannot allocate). *)
(* What it committed to redb stays; the pipes, the request in hand and    *)
(* the response not yet written are gone.  ApplyChanges commits one       *)
(* transaction per change, so a death inside it keeps a prefix.           *)
(*                                                                         *)
(* The host reads what the dead process had written, starts a new one     *)
(* with the same data directory (main: Store::open), and writes again     *)
(* every request it holds no response for, in order, before new ones.   *)
(* The loop of the new process is Dispatcher's, unchanged.  The host      *)
(* writes no garbled frames here; decode failures are Dispatcher's.       *)
(***************************************************************************)
EXTENDS Dispatcher

CONSTANTS
    MaxCrashes      \* process deaths (and failed opens) in one behaviour

VARIABLES
    sent,       \* host: ref id -> the request and the documents when sent
    resend,     \* host: ref ids to write again to the new process, in order
    crashes     \* deaths so far

restartVars == <<sent, resend, crashes>>
allVars == <<vars, restartVars>>

\* The documents the tables hold, as DocumentService sees them.
DocsView ==
    [id \in DOMAIN documents \cap DOMAIN doc_data |->
        [meta |-> documents[id], state |-> doc_data[id]]]

\* Before main() first runs: the tables of a fresh directory, no process.
RestartInit ==
    /\ StoreInit
    /\ inbox = <<>>
    /\ outbox = <<>>
    /\ reply = NoReply
    /\ stdinOpen = FALSE
    /\ session = "down"
    /\ awaiting = <<>>
    /\ sent = <<>>
    /\ resend = <<>>
    /\ crashes = 0

(***************************************************************************)
(* The process.                                                           *)
(***************************************************************************)

\* The process dies.  Committed tables stay (redb commits are durable);
\* stdin with the frames in it, the frame being handled and the response
\* not yet written are lost.  Bytes already in stdout can still be read.
Crash ==
    /\ session = "running"
    /\ crashes < MaxCrashes
    /\ session' = "down"
    /\ inbox' = <<>>
    /\ reply' = NoReply
    /\ stdinOpen' = FALSE
    /\ crashes' = crashes + 1
    /\ UNCHANGED <<storeVars, outbox, awaiting, sent, resend>>

\* The process dies inside ApplyChanges after the first n changes of the
\* batch committed (one get and one put transaction each).
CrashInApply ==
    /\ session = "running"
    /\ reply = NoReply
    /\ inbox # <<>>
    /\ Frame # Garbled
    /\ Req.type = "ApplyChanges"
    /\ crashes < MaxCrashes
    /\ \E n \in 1..(Len(Req.changes) - 1) :
          SetDocTables(ApplyPrefix(DocTables, Req.changes, n))
    /\ UNCHANGED blobs
    /\ session' = "down"
    /\ inbox' = <<>>
    /\ stdinOpen' = FALSE
    /\ crashes' = crashes + 1
    /\ UNCHANGED <<reply, outbox, awaiting, sent, resend>>

\* Mutation: Store::open truncating an existing keyring.redb.
StoreOpenTruncate ==
    /\ blobs' = <<>> /\ documents' = <<>>
    /\ doc_data' = <<>> /\ doc_hashes' = <<>>

\* Store::open: create_dir_all, Database::create opens the existing file,
\* and the write transaction that opens the four tables creates only the
\* missing ones: the committed contents are kept.
StoreOpen == UNCHANGED storeVars

\* The supervisor starts main(), first or again once the host has read
\* what the dead process wrote: fresh pipes, Store::open on the same data
\* directory, then the loop.  The host queues its unanswered requests for resending.
Restart ==
    /\ session = "down"
    /\ outbox = <<>>
    /\ StoreOpen
    /\ session' = "running"
    /\ stdinOpen' = TRUE
    /\ resend' = awaiting
    /\ UNCHANGED <<inbox, outbox, reply, awaiting, sent, crashes>>

\* Store::open returns Err (the directory or the file cannot be opened):
\* `?` in main, exit 1 before the loop, another death.
RestartFails ==
    /\ session = "down"
    /\ outbox = <<>>
    /\ crashes < MaxCrashes
    /\ crashes' = crashes + 1
    /\ UNCHANGED <<vars, sent, resend>>

(***************************************************************************)
(* The host.                                                              *)
(***************************************************************************)

\* A new request, once every unanswered one has been written again.
HostSendNew ==
    /\ stdinOpen
    /\ resend = <<>>
    /\ Len(inbox) < PipeCapacity
    /\ \E r \in RefIds \ ToSet(awaiting), q \in Requests :
          /\ inbox' = Append(inbox, [ref |-> r, req |-> q])
          /\ awaiting' = Append(awaiting, r)
          /\ sent' = (r :> [req |-> q, docs |-> DocsView,
                             alone |-> awaiting = <<>>]) @@ sent
    /\ UNCHANGED <<storeVars, outbox, reply, stdinOpen, session, resend, crashes>>

\* Write an unanswered request again, with its ref id.
HostResend ==
    /\ stdinOpen
    /\ resend # <<>>
    /\ Len(inbox) < PipeCapacity
    /\ inbox' = Append(inbox, [ref |-> Head(resend), req |-> sent[Head(resend)].req])
    /\ resend' = Tail(resend)
    /\ UNCHANGED <<storeVars, outbox, reply, stdinOpen, session, awaiting, sent,
                   crashes>>

\* Close stdin once nothing is left to write again.
HostCloseDrained == resend = <<>> /\ HostClose /\ UNCHANGED restartVars

RestartNext ==
    \/ (Port \/ HostReceive) /\ UNCHANGED restartVars
    \/ HostSendNew \/ HostResend \/ HostCloseDrained
    \/ Crash \/ CrashInApply \/ Restart \/ RestartFails

\* The loop and the host's reader as in Dispatcher; the supervisor always
\* restarts a dead port and the host writes its queued requests.
RestartSpec ==
    /\ RestartInit /\ [][RestartNext]_allVars
    /\ WF_allVars(Port /\ UNCHANGED restartVars)
    /\ WF_allVars(HostReceive /\ UNCHANGED restartVars)
    /\ WF_allVars(Restart) /\ WF_allVars(HostResend)

(***************************************************************************)
(* Properties.                                                            *)
(***************************************************************************)

\* The documents after q ran once on d, as the catalogue defines it.
OnceOutcome(q, d) ==
    CASE q.type = "PutDocument" ->
            (q.id :> [meta |-> q.meta, state |-> q.crdt_state]) @@ d
      [] q.type = "DeleteDocument" -> Restrict(d, DOMAIN d \ {q.id})
      [] q.type = "ApplyChanges" -> FoldLeft(Svc!Merge, d, q.changes)
      [] OTHER -> d

\* The host reads the response to the only request it had outstanding,
\* sent when nothing else was: no other request ran in between.
ReceivesAlone(r) ==
    /\ HostReceive
    /\ Head(outbox).ref = r
    /\ r \in DOMAIN sent /\ sent[r].alone
    /\ awaiting = <<r>>

\* Every request the host writes is answered, across any number of deaths
\* of the port up to the bound: the restarted process reopens the store
\* and serves the requests the host writes again.
AnsweredAcrossRestarts ==
    \A r \in RefIds : r \in ToSet(awaiting) ~> r \notin ToSet(awaiting)

\* Resending is safe for the documents: when a request is answered with
\* anything but Error, the documents are what one run of it on the
\* documents at its sending gives, though the port may have died after
\* committing it, or halfway through an ApplyChanges batch, and run it
\* again.  The handlers of main.rs must be idempotent under redo and
\* Store::open must keep what was committed.
ResendKeepsOutcome ==
    [][\A r \in RefIds :
         ReceivesAlone(r) /\ Head(outbox).resp # ErrorResp
           => DocsView = OnceOutcome(sent[r].req, sent[r].docs)]_allVars

\* Spec 3: Not-found is the answer to a "delete of absent id", and a delete
\* answers true then false only when run twice.  So a DeleteDocument the
\* host sent once and that is answered NotFound found no such document.
DeleteNotFoundMeansAbsent ==
    [][\A r \in RefIds :
         ReceivesAlone(r) /\ sent[r].req.type = "DeleteDocument"
         /\ Head(outbox).resp = Resp("NotFound")
           => sent[r].req.id \notin DOMAIN sent[r].docs]_allVars

====
