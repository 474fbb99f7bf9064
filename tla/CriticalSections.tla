-------------------------- MODULE CriticalSections --------------------------
(***************************************************************************)
(* The broker's critical sections and who enters which while holding which *)
(* (message_queue.cpp, outgoing_buffer.cpp, socket_list.cpp, global.cpp,   *)
(* mad.cpp, and the printing in command_execution.cpp and                  *)
(* networking_broker.cpp).  Each function is the list of what it does to   *)
(* critical sections and of where it waits for something else; a test of   *)
(* data may come out either way, only shutting_down.flag is kept.          *)
(*                                                                         *)
(* What the sections protect is BrokerThreads and SocketList; here is what *)
(* they leave out: printf's section, the lists', and how all of them nest. *)
(***************************************************************************)
EXTENDS Integers, Sequences, SequencesExt

CONSTANT TOPICS_NUM

ASSUME CriticalSectionsAssumption == TOPICS_NUM \in Nat \ {0}

Topic == 1 .. TOPICS_NUM
Main == 0
Consumer == TOPICS_NUM + 1
Thread == {Main, Consumer} \cup Topic      \* a producer thread is its topic
Nobody == -1

message_queue(t) == <<"message_queue", t>>
subscribers(t) == <<"subscribers", t>>
outgoing_buffer == <<"outgoing_buffer", 0>>
printf_crit_section == <<"printf", 0>>
shutting_down == <<"shutting_down", 0>>
CriticalSection == {message_queue(t) : t \in Topic} \cup {subscribers(t) : t \in Topic}
                     \cup {outgoing_buffer, printf_crit_section, shutting_down}

VARIABLES code,            \* what each thread has still to do, innermost call first
          owner, depth,    \* by section: who is inside, entered how often
          flag             \* shutting_down.flag

vars == <<code, owner, depth, flag>>

-----------------------------------------------------------------------------
(* What code is made of.                                                   *)
Enter(s) == <<[do |-> "enter", section |-> s]>>
Leave(s) == <<[do |-> "leave", section |-> s]>>
Inside(s, body) == Enter(s) \o body \o Leave(s)
Sleep(s) == <<[do |-> "sleep", section |-> s]>>
Send == <<[do |-> "send"]>>                \* select() without a time limit
SetFlag == <<[do |-> "set"]>>
IfFlag(yes, no) == <<[do |-> "if", yes |-> yes, no |-> no]>>
OneOf(paths) == <<[do |-> "one of", paths |-> paths]>>
Repeat(body) == <<[do |-> "repeat", body |-> body]>>
WaitLoop(s) == <<[do |-> "while", section |-> s]>>
End == <<[do |-> "end"]>>

is_shutting_down(yes, no) ==
    Enter(shutting_down) \o IfFlag(Leave(shutting_down) \o yes, Leave(shutting_down) \o no)
signal_shut_down == Inside(shutting_down, << >>)
printed == Inside(printf_crit_section, << >>)

-----------------------------------------------------------------------------
(* The functions.                                                          *)
print_message_queue_unsafe(t) == Inside(message_queue(t), << >>)
enqueue(t) ==
    Inside(message_queue(t), Inside(printf_crit_section, print_message_queue_unsafe(t)))
dequeue(t) ==
    Inside(message_queue(t), WaitLoop(message_queue(t)) \o is_shutting_down(<< >>, << >>))
produce_new_message ==
    Inside(outgoing_buffer, WaitLoop(outgoing_buffer) \o is_shutting_down(<< >>, << >>))

add_to_start(t) == Inside(subscribers(t), << >>)
free_node(t) == Inside(subscribers(t), << >>)
print_socket_list_unsafe(t) == Inside(subscribers(t), << >>)

wait_and_send == Send \o OneOf({<< >>, printed})
send_to_client == wait_and_send
send_to_stats_manager == wait_and_send
notify_stats_manager == send_to_stats_manager

publish(t) == enqueue(t) \o notify_stats_manager
subscribe(t) ==
    OneOf({add_to_start(t) \o Inside(printf_crit_section, print_socket_list_unsafe(t))
             \o notify_stats_manager,
           printed})
unsubscribe(t) ==
    free_node(t) \o OneOf({Inside(printf_crit_section, print_socket_list_unsafe(t))
                             \o notify_stats_manager,
                           printed})
query == OneOf({<< >>, notify_stats_manager}) \o produce_new_message
connection_closed == printed \o FlattenSeq([t \in Topic |-> free_node(t)])

(* A response, or a message to the subscribers, whose section is left      *)
(* around every send.                                                      *)
message_keeping_inside(t) ==                                        \* mutant
    printed \o Inside(subscribers(t), Repeat(send_to_client))
message_printing_inside(t) ==                                       \* mutant
    Inside(subscribers(t),
           printed \o Repeat(Leave(subscribers(t)) \o send_to_client \o Enter(subscribers(t))))
message(t) ==
    printed \o Inside(subscribers(t),
                      Repeat(Leave(subscribers(t)) \o send_to_client \o Enter(subscribers(t))))
send_subscription_message_or_response ==
    OneOf({send_to_client} \cup {message(t) : t \in Topic})

shut_down_threads ==
    Inside(shutting_down, SetFlag)
      \o FlattenSeq([t \in Topic |-> Inside(message_queue(t), << >>)])
      \o Inside(outgoing_buffer, << >>)
      \o Inside(shutting_down, Repeat(Sleep(shutting_down)))
free_message_queue(t) == Inside(message_queue(t), << >>)
close_sockets_and_free_socket_list(t) == Inside(subscribers(t), << >>)
mutual_assured_destruction ==
    shut_down_threads
      \o FlattenSeq([t \in Topic |-> free_message_queue(t) \o close_sockets_and_free_socket_list(t)])
      \o End

(* The threads: what a thread does next when it has nothing left to do.    *)
produce(t) == is_shutting_down(signal_shut_down \o End, dequeue(t) \o produce_new_message)
consume ==
    is_shutting_down(
        signal_shut_down \o End,
        Enter(outgoing_buffer) \o WaitLoop(outgoing_buffer)
          \o is_shutting_down(send_subscription_message_or_response \o Leave(outgoing_buffer)
                                \o signal_shut_down \o End,
                              Leave(outgoing_buffer) \o send_subscription_message_or_response))
MainCalls == {printed, connection_closed, query}
               \cup UNION {{publish(t), subscribe(t), unsubscribe(t)} : t \in Topic}
Calls(thread) == CASE thread = Main -> MainCalls
                   [] thread = Consumer -> {consume}
                   [] OTHER -> {produce(thread)}

-----------------------------------------------------------------------------
(* A thread that could not be created never does anything, and main then   *)
(* shuts the others down.                                                  *)
Init ==
    /\ \E missing \in SUBSET (Thread \ {Main}) :
          code = [thread \in Thread |->
                    CASE thread \in missing -> End
                      [] thread = Main /\ missing # {} -> mutual_assured_destruction
                      [] OTHER -> << >>]
    /\ owner = [s \in CriticalSection |-> Nobody]
    /\ depth = [s \in CriticalSection |-> 0]
    /\ flag = FALSE

Next1(thread) == Head(code[thread])
Doing(thread, what) == code[thread] # << >> /\ Next1(thread).do = what
Continue(thread, path) == code' = [code EXCEPT ![thread] = path \o Tail(@)]
NoSectionChanges == UNCHANGED <<owner, depth>>

Call(thread) ==
    /\ code[thread] = << >>
    /\ \E path \in Calls(thread) : code' = [code EXCEPT ![thread] = path]
    /\ NoSectionChanges /\ UNCHANGED flag

(* A critical section can be entered again by whoever is inside.           *)
EnterCriticalSection(thread) ==
    /\ Doing(thread, "enter")
    /\ LET s == Next1(thread).section
       IN  /\ owner[s] \in {Nobody, thread}
           /\ owner' = [owner EXCEPT ![s] = thread]
           /\ depth' = [depth EXCEPT ![s] = @ + 1]
    /\ Continue(thread, << >>)
    /\ UNCHANGED flag

Left(s) ==
    /\ depth' = [depth EXCEPT ![s] = @ - 1]
    /\ owner' = IF depth[s] = 1 THEN [owner EXCEPT ![s] = Nobody] ELSE owner

LeaveCriticalSection(thread) ==
    /\ Doing(thread, "leave")
    /\ Left(Next1(thread).section)
    /\ Continue(thread, << >>)
    /\ UNCHANGED flag

(* SleepConditionVariableCS() leaves the section once, and enters it again *)
(* after a wake-up, which may come at any time and for no reason.          *)
SleepConditionVariableCS(thread) ==
    /\ Doing(thread, "sleep")
    /\ Left(Next1(thread).section)
    /\ Continue(thread, <<[do |-> "asleep", section |-> Next1(thread).section]>>)
    /\ UNCHANGED flag

Awake(thread) ==
    /\ Doing(thread, "asleep")
    /\ Continue(thread, Enter(Next1(thread).section))
    /\ NoSectionChanges /\ UNCHANGED flag

Sent(thread) ==
    /\ Doing(thread, "send")
    /\ Continue(thread, << >>)
    /\ NoSectionChanges /\ UNCHANGED flag

(* while (<data> && !is_shutting_down()) sleep                             *)
Branch(thread) ==
    /\ LET op == Next1(thread)
       IN  \/ /\ Doing(thread, "while")
              /\ \/ Continue(thread, << >>)
                 \/ Continue(thread, is_shutting_down(<< >>, Sleep(op.section) \o <<op>>))
           \/ Doing(thread, "repeat") /\ (Continue(thread, << >>) \/ Continue(thread, op.body \o <<op>>))
           \/ Doing(thread, "one of") /\ \E path \in op.paths : Continue(thread, path)
           \/ Doing(thread, "if") /\ Continue(thread, IF flag THEN op.yes ELSE op.no)
    /\ NoSectionChanges /\ UNCHANGED flag

FlagSet(thread) ==
    /\ Doing(thread, "set")
    /\ flag' = TRUE
    /\ Continue(thread, << >>)
    /\ NoSectionChanges

OwnStep(thread) ==
    \/ EnterCriticalSection(thread) \/ LeaveCriticalSection(thread)
    \/ SleepConditionVariableCS(thread) \/ Branch(thread) \/ FlagSet(thread)

Next == \E thread \in Thread :
          Call(thread) \/ OwnStep(thread) \/ Awake(thread) \/ Sent(thread)

Spec == Init /\ [][Next]_vars

(* A thread inside a function goes on, and is let into a section that is   *)
(* free again and again.  No client has to read, so that no send has to    *)
(* end; nobody has to be woken; main has nothing it must do.               *)
FairSpec == Spec /\ \A thread \in Thread : SF_vars(OwnStep(thread))
-----------------------------------------------------------------------------
Waits(thread) == Doing(thread, "enter") /\ owner[Next1(thread).section] \notin {Nobody, thread}
WaitsFor(thread) == IF Waits(thread) THEN owner[Next1(thread).section] ELSE Nobody
Holds(thread) == {s \in CriticalSection : owner[s] = thread}

(* However the threads' calls interleave, no ring of threads arises, each  *)
(* of them inside a critical section that the next one wants to enter.     *)
NoCircularWait ==
    \A ring \in (SUBSET Thread) \ {{}} : \E thread \in ring : WaitsFor(thread) \notin ring

(* outgoing_buffer.cpp:91: nobody is inside a critical section while it    *)
(* waits for a client or sleeps, so that a client that does not read keeps *)
(* only the thread that sends to it.  (During a shutdown the last element  *)
(* is sent from within the outgoing buffer's section.)                     *)
NothingHeldWhileBlocked ==
    \A thread \in Thread :
        /\ Doing(thread, "asleep") => Holds(thread) = {}
        /\ Doing(thread, "send") /\ ~flag => Holds(thread) = {}

(* Whoever wants to enter a critical section is let in some time, even if  *)
(* no client ever reads what it is sent, as long as no shutdown begins:    *)
(* once the flag is up the consumer thread may wait for a client from      *)
(* within the outgoing buffer's section.                                   *)
EveryEntryIsGranted ==
    \A thread \in Thread : Waits(thread) ~> ~Waits(thread) \/ flag
=============================================================================
