---------------------------- MODULE StatsManager ----------------------------
(***************************************************************************)
(* The StatsManager (stats_manager.cpp, notification_handling.cpp,         *)
(* file_updating.cpp, networking_sm.cpp): it receives the broker's         *)
(* notifications over one TCP connection, counts them in memory by kind    *)
(* and topic, and every UPDATE_PERIOD adds the counts to stats.txt.        *)
(*                                                                         *)
(* A notification is its kind and topic, one of the counters.  The process *)
(* can be killed at any moment (Runner ends it with Kill()) and be started *)
(* again; stats.txt is all that it leaves behind.                          *)
(***************************************************************************)
EXTENDS Naturals, Sequences, FiniteSets

CONSTANTS Notification,              \* a command's kind and its topic
          MISSING, EMPTY,            \* stats.txt without counts in it
          MaxTold,                   \* bound: notifications sent
          MaxStarts                  \* bound: runs of the process

ASSUME StatsManagerAssumption ==
    /\ IsFiniteSet(Notification)
    /\ MISSING # EMPTY
    /\ {MISSING, EMPTY} \cap [Notification -> Nat] = {}
    /\ MaxTold \in Nat /\ MaxStarts \in Nat \ {0}

VARIABLES
    stream,                    \* notifications sent and not yet received
    rest,                      \* the first of them has been received in part
    connection,                \* "none", "open"; then "closed", or "reset" with
                               \*   the broker's death
    main,                      \* where main is
    topic_stats_array,         \* the counts since the last update
    notifications_received,
    due,                       \* UPDATE_PERIOD has passed since the last update
    file,                      \* stats.txt: MISSING, EMPTY or counts
    to_write,                  \* what update_and_show_stats() is about to write
    process,                   \* "running", "exited" or "killed"
    starts,
    told,                      \* history: the notifications the broker sent
    lost,                      \* history: a run ended, or a write failed, with
                               \*   counts that were nowhere else, or something
                               \*   received was passed over
    coalesced,                 \* history: one recv() brought different notifications
    read_failed                \* history: an update could not read stats.txt

memory == <<topic_stats_array, notifications_received, due>>
history == <<told, lost, coalesced, read_failed>>
vars == <<stream, rest, connection, main, memory, file, to_write, process, starts, history>>

Counts == [Notification -> Nat]
Zero == [n \in Notification |-> 0]
Saved == IF file \in {MISSING, EMPTY} THEN Zero ELSE file
Plus(f, g) == [n \in Notification |-> f[n] + g[n]]
Numbered(f) == UNION {{n} \X (1 .. f[n]) : n \in Notification}
Total(f) == Cardinality(Numbered(f))
Ahead == IF rest THEN Tail(stream) ELSE stream
InStream == [n \in Notification |-> Cardinality({k \in 1 .. Len(Ahead) : Ahead[k] = n})]

Started ==
    /\ stream' = << >> /\ rest' = FALSE /\ connection' = "none" /\ main' = "accept"
    /\ topic_stats_array' = Zero /\ notifications_received' = FALSE /\ due' = FALSE
    /\ to_write' = Zero /\ process' = "running"

Init ==
    /\ stream = << >> /\ rest = FALSE /\ connection = "none" /\ main = "accept"
    /\ topic_stats_array = Zero /\ notifications_received = FALSE /\ due = FALSE
    /\ to_write = Zero /\ process = "running"
    /\ file \in {MISSING, EMPTY, Zero}
    /\ starts = 1
    /\ told = Zero /\ lost = FALSE /\ coalesced = FALSE /\ read_failed = FALSE

-----------------------------------------------------------------------------
(* The broker (notify_stats_manager(), connect_to_sm()), time, and whoever *)
(* kills and starts processes.                                             *)
Notify ==
    /\ connection = "open"
    /\ Total(told) < MaxTold
    /\ \E n \in Notification : /\ stream' = Append(stream, n)
                               /\ told' = [told EXCEPT ![n] = @ + 1]
    /\ UNCHANGED <<rest, connection, main, memory, file, to_write, process, starts,
                   lost, coalesced, read_failed>>

BrokerEnds ==
    /\ connection = "open"
    /\ \/ /\ connection' = "closed"
          /\ UNCHANGED <<stream, rest, lost>>
       \/ /\ connection' = "reset"
          /\ stream' = << >> /\ rest' = FALSE
          /\ lost' = (lost \/ Ahead # << >>)
    /\ UNCHANGED <<main, memory, file, to_write, process, starts,
                   told, coalesced, read_failed>>

PeriodPasses ==
    /\ main # "accept"
    /\ ~due /\ due' = TRUE
    /\ UNCHANGED <<stream, rest, connection, main, topic_stats_array, notifications_received,
                   file, to_write, process, starts, history>>

Kill ==
    /\ process' = "killed"
    /\ lost' = (lost \/ Ahead # << >> \/ topic_stats_array # Zero)
    /\ UNCHANGED <<stream, rest, connection, main, memory, file, to_write, starts,
                   told, coalesced, read_failed>>

Start ==
    /\ process # "running"
    /\ starts < MaxStarts
    /\ starts' = starts + 1
    /\ Started
    /\ UNCHANGED <<file, history>>

-----------------------------------------------------------------------------
(* main: accept_connection() until it is connected; an error ends it.      *)
accept_connection ==
    /\ main = "accept"
    /\ \/ /\ connection' = "open" /\ main' = "handle"
          /\ UNCHANGED process
       \/ /\ process' = "exited"
          /\ UNCHANGED <<connection, main>>
    /\ UNCHANGED <<stream, rest, memory, file, to_write, starts, history>>

(* handle_notifications(): the loop finds every notification in the buffer *)
(* but hands the first one to handle_notification() each time.             *)
handle_first_only(notifications) ==                                 \* mutant
    topic_stats_array' = [topic_stats_array EXCEPT ![notifications[1]] = @ + 1]
handle_all(notifications) ==
    topic_stats_array' = [topic_stats_array EXCEPT ![notifications[1]] = @ + Len(notifications)]

forget_when_nothing_comes(just) == notifications_received' = just   \* mutant
remember(just) == notifications_received' = (notifications_received \/ just)

Counted(received) ==
    /\ handle_all(received)
    /\ coalesced' = (coalesced \/ \E k \in 2 .. Len(received) : received[k] # received[1])
    /\ remember(TRUE)
    /\ UNCHANGED <<process, lost>>

(* A front that comes alone counts if only its '\0' is missing; otherwise  *)
(* its topic is unknown, or not even there, and strcpy_s() ends it all.    *)
FrontAlone(received) ==
    \/ Counted(received)
    \/ /\ \/ remember(TRUE) /\ UNCHANGED process
          \/ process' = "exited" /\ UNCHANGED notifications_received
       /\ lost' = TRUE
       /\ UNCHANGED <<topic_stats_array, coalesced>>

(* Behind the rest of a notification, whatever it looks like, nothing is   *)
(* counted.                                                                *)
RestFirst(received) ==
    /\ \E just \in BOOLEAN : remember(just)
    /\ lost' = (lost \/ Len(received) > 1)
    /\ UNCHANGED <<topic_stats_array, coalesced, process>>

(* A part from the middle is passed over like its front, or is too short   *)
(* for strcpy_s().  (A front that counts lacks one byte, and has none.)    *)
MiddleAlone ==
    /\ lost
    /\ \/ (\E just \in BOOLEAN : remember(just)) /\ UNCHANGED process
       \/ process' = "exited" /\ UNCHANGED notifications_received
    /\ UNCHANGED <<topic_stats_array, coalesced, lost>>

handle_notifications ==
    /\ main = "handle"
    /\ \E n \in 1 .. Len(stream), front \in BOOLEAN :
          LET received == SubSeq(stream, 1, n)      \* the last one whole, or its front
          IN  /\ CASE rest /\ front /\ n = 1 -> MiddleAlone
                   [] rest /\ ~(front /\ n = 1) -> RestFirst(received)
                   [] ~rest /\ front /\ n = 1 -> FrontAlone(received)
                   [] OTHER -> Counted(received)
              /\ rest' = front
              /\ stream' = SubSeq(stream, IF front THEN n ELSE n + 1, Len(stream))
    /\ main' = "update"
    /\ UNCHANGED <<connection, due, file, to_write, starts, told, read_failed>>

(* Nothing within 0.2 seconds, or an error, again and again after a reset. *)
NothingReceived ==
    /\ main = "handle"
    /\ stream = << >> /\ connection # "closed"
    /\ remember(FALSE)
    /\ main' = "update"
    /\ UNCHANGED <<stream, rest, connection, topic_stats_array, due, file, to_write, process,
                   starts, history>>

(* recv() returns 0: exit(16), with whatever was counted.                  *)
ConnectionClosed ==
    /\ main = "handle"
    /\ stream = << >> /\ connection = "closed"
    /\ process' = "exited"
    /\ lost' = (lost \/ topic_stats_array # Zero)
    /\ UNCHANGED <<stream, rest, connection, main, memory, file, to_write, starts,
                   told, coalesced, read_failed>>

NoUpdate ==
    /\ main = "update"
    /\ ~(notifications_received /\ due)
    /\ main' = "handle"
    /\ UNCHANGED <<stream, rest, connection, memory, file, to_write, process, starts, history>>

(* update_and_show_stats().  Without the file's content it does nothing,   *)
(* and main takes the update for done.                                     *)
ReadFails ==
    /\ main = "update"
    /\ notifications_received /\ due
    /\ notifications_received' = FALSE /\ due' = FALSE
    /\ read_failed' = TRUE
    /\ main' = "handle"
    /\ UNCHANGED <<stream, rest, connection, topic_stats_array, file, to_write, process, starts,
                   told, lost, coalesced>>

keep_stats == UNCHANGED topic_stats_array                           \* mutant
reset_stats == topic_stats_array' = Zero

this_period_only == topic_stats_array                               \* mutant
sum_with_file == Plus(Saved, topic_stats_array)

(* fopen(.., "w") has emptied the file, or failed.                         *)
OpenForWriting ==
    /\ main = "update"
    /\ notifications_received /\ due
    /\ file # MISSING
    /\ \/ /\ file' = EMPTY
          /\ to_write' = sum_with_file
          /\ main' = "write"
          /\ UNCHANGED <<memory, lost>>
       \/ /\ reset_stats
          /\ notifications_received' = FALSE /\ due' = FALSE
          /\ lost' = TRUE
          /\ main' = "handle"
          /\ UNCHANGED <<file, to_write>>
    /\ UNCHANGED <<stream, rest, connection, process, starts, told, coalesced, read_failed>>

(* fputs() and fclose(), which may fail too; the counts are reset anyway.  *)
WriteFile ==
    /\ main = "write"
    /\ \/ file' = to_write /\ UNCHANGED lost
       \/ lost' = TRUE /\ UNCHANGED file
    /\ reset_stats
    /\ notifications_received' = FALSE /\ due' = FALSE
    /\ to_write' = Zero
    /\ main' = "handle"
    /\ UNCHANGED <<stream, rest, connection, process, starts, told, coalesced, read_failed>>

KillWhileWriting ==
    /\ main = "write"
    /\ process' = "killed"
    /\ lost' = TRUE
    /\ UNCHANGED <<stream, rest, connection, main, memory, file, to_write, starts,
                   told, coalesced, read_failed>>

MainLoop == \/ handle_notifications \/ NothingReceived \/ ConnectionClosed
            \/ NoUpdate \/ ReadFails \/ OpenForWriting \/ WriteFile

Next == \/ /\ process = "running"
           /\ \/ Notify \/ BrokerEnds \/ PeriodPasses
              \/ accept_connection \/ MainLoop
              \/ main # "write" /\ Kill
              \/ KillWhileWriting
        \/ Start

Spec == Init /\ [][Next]_vars

(* main never waits for more than 0.2 seconds, and time passes.            *)
FairSpec == /\ Spec
            /\ WF_vars(process = "running" /\ MainLoop)
            /\ WF_vars(process = "running" /\ PeriodPasses)
-----------------------------------------------------------------------------
(* What is on record: in stats.txt and in memory, or, while the file is    *)
(* empty, in the string that is about to be written.                       *)
OnRecord == IF main = "write" THEN to_write ELSE Plus(Saved, topic_stats_array)

(* As long as no run ends and no write fails in between, no notification   *)
(* goes uncounted and none is counted twice, through every interleaving of *)
(* arrivals, updates and restarts ...                                      *)
TotalsConserved ==
    ~lost => Total(told) = Total(OnRecord) + Len(Ahead)

(* ... and each is counted for its kind and topic, if different ones never *)
(* arrive together.                                                        *)
CountsExact ==
    ~lost /\ ~coalesced => told = Plus(OnRecord, InStream)

(* Whatever is killed, exits or fails, and whenever: a run that follows    *)
(* never counts again what stats.txt has.                                  *)
NothingCountedTwice ==
    Total(OnRecord) + Len(Ahead) <= Total(told)

(* Counts do not stay in memory: the next update writes them, or the run   *)
(* ends, or stats.txt could not be read.                                   *)
CountsLeaveMemory ==
    topic_stats_array # Zero
        ~> topic_stats_array = Zero \/ process # "running" \/ read_failed
=============================================================================
