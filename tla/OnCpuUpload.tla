---------------------------- MODULE OnCpuUpload ----------------------------
(***************************************************************************)
(* What the cpu detector does with oncpu stacks: they are put in a trie,   *)
(* which a ticker hands every ten seconds to the upload threads of the     *)
(* pyroscope client (Remote), or they are passed on to the exporter.  One  *)
(* test of the Server option starts the uploader, another one, in          *)
(* oncpuHandler, chooses between the trie and the exporter.                *)
(*                                                                         *)
(* A stack is its number in the order of arrival.  A step that holds       *)
(* trieLock (the handler's insertion, all of UploadTries) is one step.     *)
(***************************************************************************)
EXTENDS Naturals, Sequences, FiniteSets

CONSTANTS
    Server,          \* option --server of the oncpu command
    UploadThreads,   \* the handleJobs goroutines
    JobsSize,        \* capacity of jobs, 100 in the code
    MaxStacks        \* bound on the stacks

DefaultServer == "http://localhost:4040"

VARIABLES
    arrived,    \* number of oncpu events processed
    trie,       \* the stacks in the current trie
    inserted,   \* history: every stack ever put in the trie
    ticked,     \* startTimeTruncated is set: the first tick has passed
    jobs,       \* the channel of upload jobs, each the stacks of one trie
    busy,       \* busy[u]: the job upload thread u is posting, {} when none
    uploaded,   \* stacks of posts that have ended, well or not
    exported    \* stacks passed on to the exporter

vars == <<arrived, trie, inserted, ticked, jobs, busy, uploaded, exported>>

\* Init starts UploadWithTicker and the upload threads for this server only.
UploaderRuns == Server = DefaultServer

Init ==
    /\ arrived = 0
    /\ trie = {} /\ inserted = {}
    /\ ticked = FALSE
    /\ jobs = <<>>
    /\ busy = [u \in UploadThreads |-> {}]
    /\ uploaded = {} /\ exported = {}

\* ProcessEvent of an oncpu event.
OncpuHandler ==
    /\ arrived < MaxStacks
    /\ arrived' = arrived + 1
    /\ IF Server # DefaultServer
       THEN /\ trie' = trie \cup {arrived + 1}
            /\ inserted' = inserted \cup {arrived + 1}
            /\ UNCHANGED exported
       ELSE /\ exported' = exported \cup {arrived + 1}
            /\ UNCHANGED <<trie, inserted>>
    /\ UNCHANGED <<ticked, jobs, busy, uploaded>>

\* A tick: the trie becomes a job, dropped when the channel is full, and a new
\* trie takes its place.  The first tick only sets the start time.
UploadTries ==
    /\ UploaderRuns
    /\ ticked' = TRUE
    /\ IF ticked
       THEN /\ trie' = {}
            /\ jobs' = IF trie # {} /\ Len(jobs) < JobsSize THEN Append(jobs, trie) ELSE jobs
       ELSE UNCHANGED <<trie, jobs>>
    /\ UNCHANGED <<arrived, inserted, busy, uploaded, exported>>

HandleJob(u) ==
    /\ UploaderRuns
    /\ busy[u] = {} /\ jobs # <<>>
    /\ busy' = [busy EXCEPT ![u] = Head(jobs)]
    /\ jobs' = Tail(jobs)
    /\ UNCHANGED <<arrived, trie, inserted, ticked, uploaded, exported>>

\* safeUpload returns: an error or a panic is logged, the job is not retried.
SafeUpload(u) ==
    /\ busy[u] # {}
    /\ uploaded' = uploaded \cup busy[u]
    /\ busy' = [busy EXCEPT ![u] = {}]
    /\ UNCHANGED <<arrived, trie, inserted, ticked, jobs, exported>>

Idle ==
    /\ arrived = MaxStacks
    /\ UNCHANGED vars

Next ==
    \/ OncpuHandler
    \/ UploadTries
    \/ \E u \in UploadThreads : HandleJob(u) \/ SafeUpload(u)
    \/ Idle

\* The ticker ticks, the upload threads run, a post ends (the client has a
\* timeout), and the detector's goroutine runs while there are events.
Fairness ==
    /\ WF_vars(OncpuHandler)
    /\ WF_vars(UploadTries)
    /\ \A u \in UploadThreads : WF_vars(HandleJob(u) \/ SafeUpload(u))

Spec == Init /\ [][Next]_vars /\ Fairness

----------------------------------------------------------------------------
\* "insert the stackinfo into trie tree / c.UploadTries will upload to
\* upatream" (cpudetector.go:204-205): a stack put in the trie does not stay
\* there; a tick of UploadTries takes it out.
TrieUploaded == \A s \in 1..MaxStacks : (s \in inserted) ~> (s \notin trie)
=============================================================================
