---------------------------- MODULE AsioEndpoint ----------------------------
(***************************************************************************)
(* What the endpoints of this repository use of ASIO: one UDP socket, one  *)
(* system_timer, and the completions of their asynchronous operations that *)
(* wait in the io_context for a handler to run.  ASIO is not part of this  *)
(* repository; the operators say what the calls in src/src do to it.       *)
(*                                                                         *)
(*   open      the socket is open                                          *)
(*   sent      send operations completed without error, handler to run     *)
(*   failed    send operations completed with an error, handler to run     *)
(*   waiting   an async_wait is pending on the timer                       *)
(*   expired   waits that expired, handler to run: cancel and              *)
(*             expires_after no longer reach them                          *)
(*   receives  receive operations pending on the socket                    *)
(*   received  byte counts of the receive operations completed without     *)
(*             error, in the order the kernel completed them               *)
(*   broken    receive operations completed with an error                  *)
(*                                                                         *)
(* A handler that gets operation_aborted returns at once in every class of *)
(* src/src that holds an endpoint, so a cancelled operation is dropped     *)
(* when it is cancelled.  A UDP send is tried as it is started, and its    *)
(* completion is queued.  Completions of different operations are run in   *)
(* any order: ASIO promises none.                                          *)
(***************************************************************************)
EXTENDS Naturals, Sequences

Endpoint == [open : BOOLEAN, sent : Nat, failed : Nat, waiting : BOOLEAN,
             expired : Nat, receives : Nat, received : Seq(Nat), broken : Nat]

Unopened == [open |-> FALSE, sent |-> 0, failed |-> 0, waiting |-> FALSE,
             expired |-> 0, receives |-> 0, received |-> << >>, broken |-> 0]

\* open, set_option and bind, none of which threw.
open_socket(s) == [s EXCEPT !.open = TRUE]

\* async_send_to: "accepted" is whether the kernel took the datagram.
async_send_to(s, accepted) ==
    IF s.open /\ accepted THEN [s EXCEPT !.sent = @ + 1]
                          ELSE [s EXCEPT !.failed = @ + 1]

\* async_receive_from: on a closed socket it completes with bad_descriptor.
async_receive_from(s) ==
    IF s.open THEN [s EXCEPT !.receives = @ + 1]
              ELSE [s EXCEPT !.broken = @ + 1]

\* expires_after cancels the pending wait, async_wait starts the next one.
restart_timer(s) == [s EXCEPT !.waiting = TRUE]

cancel_timer(s) == [s EXCEPT !.waiting = FALSE]

\* close aborts the pending receive operations.
close_socket(s) == [s EXCEPT !.open = FALSE, !.receives = 0]

\* The timer of a pending wait runs out.
expire(s) == [s EXCEPT !.waiting = FALSE, !.expired = @ + 1]

\* The kernel completes the oldest pending receive with a datagram of "bytes".
complete_receive(s, bytes) ==
    [s EXCEPT !.receives = @ - 1, !.received = Append(@, bytes)]

\* The kernel completes a pending receive with an error.
break_receive(s) == [s EXCEPT !.receives = @ - 1, !.broken = @ + 1]

\* The handler of one completion is about to run.
take_sent(s) == [s EXCEPT !.sent = @ - 1]
take_failed(s) == [s EXCEPT !.failed = @ - 1]
take_expired(s) == [s EXCEPT !.expired = @ - 1]
take_received(s) == [s EXCEPT !.received = Tail(@)]
take_broken(s) == [s EXCEPT !.broken = @ - 1]

\* A completion or the timer will run some handler even if no packet arrives.
Driven(s) == s.sent > 0 \/ s.failed > 0 \/ s.expired > 0 \/ s.waiting

\* Nothing the io_context could still run: the handlers' references are gone.
Quiet(s) ==
    /\ s.sent = 0 /\ s.failed = 0 /\ s.expired = 0 /\ ~s.waiting
    /\ s.receives = 0 /\ s.received = << >> /\ s.broken = 0
=============================================================================
