----------------------------- MODULE AtomicList -----------------------------
(***************************************************************************)
(* What the chain promises its clients while it works: one list of cars on *)
(* which every command takes effect at one instant between its call and    *)
(* its return.  It is the contract of include/client_stub.h, where every   *)
(* rlist_* function acts on "the remote list", for the commands of         *)
(* source/list_client.c.                                                   *)
(***************************************************************************)
EXTENDS CarList

CONSTANTS
    Client,         \* client programs
    Inputs,         \* the requests they make
    MaxCommands     \* bound: commands called by all clients together

VARIABLES
    cars,       \* the remote list
    call,       \* call[c]: what client c is doing
    calls       \* commands called so far

avars == <<cars, call, calls>>

AnyData == CHOOSE d \in Data : TRUE
NoCall == [pc |-> "idle", req |-> [opcode |-> "SIZE", data |-> AnyData],
           reply |-> Ok]

Init ==
    /\ cars = <<>>
    /\ call = [c \in Client |-> NoCall]
    /\ calls = 0

Call(c, req) ==
    /\ calls < MaxCommands
    /\ call[c].pc = "idle"
    /\ calls' = calls + 1
    /\ call' = [call EXCEPT ![c] = [@ EXCEPT !.pc = "called", !.req = req]]
    /\ UNCHANGED cars

Perform(c) ==
    /\ call[c].pc = "called"
    /\ cars' = HandleList(cars, call[c].req)
    /\ call' = [call EXCEPT ![c] =
                  [@ EXCEPT !.pc = "done",
                            !.reply = HandleReply(cars, call[c].req)]]
    /\ UNCHANGED calls

Return(c) ==
    /\ call[c].pc = "done"
    /\ call' = [call EXCEPT ![c] = NoCall]
    /\ UNCHANGED <<cars, calls>>

Next ==
    \E c \in Client :
        \/ \E req \in Inputs : Call(c, req)
        \/ Perform(c)
        \/ Return(c)

Spec == Init /\ [][Next]_avars

\* A command that was called takes effect and returns.
FairSpec == Spec /\ \A c \in Client : WF_avars(Perform(c) \/ Return(c))

=============================================================================
