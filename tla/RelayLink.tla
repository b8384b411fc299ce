----------------------------- MODULE RelayLink -----------------------------
(***************************************************************************)
(* The HID relay: keyboard state, mouse buttons and motion from a central   *)
(* to a USB dongle, carried in the ACKs of the dongle's polls.              *)
(*                                                                          *)
(*   system workqueue   keycode, endpoint and keepalive handlers            *)
(*   input thread       the relay pointer input processor                   *)
(*   radio ISR          packs one reply per poll: queued reports first,     *)
(*                      else the latched state; a mouse report rides along  *)
(*   dongle             forwards to USB what differs from what it delivered *)
(*                                                                          *)
(* The workqueue preempts the input thread, the ISR preempts both.  One key *)
(* report stands for the keyboard and the consumer report, one axis and one *)
(* button for the mouse report.  A report takes one unit of a reply.        *)
(***************************************************************************)
EXTENDS Integers, Sequences, FiniteSetsExt

CONSTANTS
    QueueDepth,     \* reply-queue-depth of the relay pipe
    ReplyRoom,      \* reports that fit one ACK payload
    MaxKeys,        \* bound: key changes
    MaxClicks,      \* bound: button changes
    MaxMotion,      \* bound: counts moved
    MaxEndpoints    \* bound: endpoint changes (the central's own USB host comes or goes)

ASSUME SizeAssumption == QueueDepth \in Nat \ {0} /\ ReplyRoom \in Nat \ {0, 1}
ASSUME BoundAssumption ==
    /\ MaxKeys \in Nat /\ MaxClicks \in Nat /\ MaxMotion \in Nat
    /\ MaxEndpoints \in Nat

VARIABLES
    key_down, keys,           \* ZMK's keyboard report; bound: its changes so far
    key_ver,                  \* history: changes of what is relayed of it
    zmk_button, clicks,       \* ZMK's mouse report; history: button events so far
    paused, endpoints,
    sum,                      \* running motion total
    buttons, button_ver,      \* the relay's buttons; history: changes of them
    refresh_due,
    written_body,             \* last mouse report that reached the ACK FIFO
    reply_queue, replies_staged, idle_reply,
    replies_written,          \* history: queued reports that reached the ACK FIFO
    work, polled_in_gap,      \* system workqueue: where it is; a poll came before the count
    input,                    \* input thread: where it is, and its event
    ack_payload,              \* the reply the next ACK of the pipe carries
    dongle                    \* what the dongle delivered and tracks

zmk_vars   == <<key_down, keys, key_ver, zmk_button, clicks>>
end_vars   == <<paused, endpoints>>
point_vars == <<sum, buttons, button_ver>>
isr_vars   == <<written_body, ack_payload, replies_written, dongle>>
queue_vars == <<reply_queue, replies_staged, idle_reply>>
vars == <<zmk_vars, end_vars, point_vars, refresh_due, isr_vars, queue_vars,
          work, polled_in_gap, input>>

KeyReport(down, v) == [id |-> "keys", down |-> down, ver |-> v, total |-> 0]
MouseReport(down, v, total) == [id |-> "mouse", down |-> down, ver |-> v, total |-> total]
NoReply == <<>>
NoIdle  == [reply |-> NoReply, replies_staged |-> 0]

-----------------------------------------------------------------------------
(* esb_link_stage_reply puts the report, if there is room, then counts it.   *)
(* The count is a step of its own.                                           *)
Staged(queue, report) == IF Len(queue) < QueueDepth THEN Append(queue, report) ELSE queue

(* The latch keeps the newest state only (SpscLatch). *)
esb_link_latch_idle_reply(down, v) ==
    idle_reply' = [reply |-> <<KeyReport(down, v)>>, replies_staged |-> replies_staged]

latch_relay_reports ==
    /\ esb_link_latch_idle_reply(key_down /\ ~paused, key_ver)
    /\ refresh_due' = TRUE

-----------------------------------------------------------------------------
(* System workqueue.  No thread runs until its item ends. *)

stage_keycode ==
    /\ work = "idle" /\ keys < MaxKeys
    /\ keys' = keys + 1
    /\ key_down' = ~key_down /\ key_ver' = key_ver + 1
    /\ reply_queue' = IF paused THEN reply_queue
                      ELSE Staged(reply_queue, KeyReport(~key_down, key_ver + 1))
    /\ work' = IF reply_queue' = reply_queue THEN "idle" ELSE "count"
    /\ polled_in_gap' = FALSE
    /\ UNCHANGED <<zmk_button, clicks, end_vars, point_vars, refresh_due, isr_vars,
                   replies_staged, idle_reply, input>>

CountKeycode ==
    /\ work = "count"
    /\ replies_staged' = replies_staged + 1
    /\ work' = "idle" /\ polled_in_gap' = FALSE
    /\ UNCHANGED <<zmk_vars, end_vars, point_vars, refresh_due, isr_vars, reply_queue,
                   idle_reply, input>>

hid_relay_keepalive_fire ==
    /\ work = "idle"
    /\ latch_relay_reports
    /\ UNCHANGED <<zmk_vars, end_vars, point_vars, isr_vars, reply_queue, replies_staged,
                   work, polled_in_gap, input>>

(* follow_endpoint: pause or resume, then the buttons, then the latched state. *)
follow_endpoint ==
    /\ work = "idle" /\ endpoints < MaxEndpoints
    /\ endpoints' = endpoints + 1
    /\ paused' = ~paused
    /\ key_ver' = IF key_down THEN key_ver + 1 ELSE key_ver
    /\ button_ver' = button_ver + 1
    /\ work' = "reset"
    /\ UNCHANGED <<key_down, keys, zmk_button, clicks, sum, buttons, refresh_due,
                   isr_vars, queue_vars, polled_in_gap, input>>

esb_hid_relay_pointer_reset ==
    /\ work = "reset"
    /\ buttons' = (zmk_button /\ ~paused)
    /\ button_ver' = IF buttons' = buttons THEN button_ver ELSE button_ver + 1
    /\ work' = "latch"
    /\ UNCHANGED <<zmk_vars, end_vars, sum, refresh_due, isr_vars, queue_vars,
                   polled_in_gap, input>>

LatchEndpoint ==
    /\ work = "latch"
    /\ latch_relay_reports
    /\ work' = "idle"
    /\ UNCHANGED <<zmk_vars, end_vars, point_vars, isr_vars, reply_queue, replies_staged,
                   polled_in_gap, input>>

-----------------------------------------------------------------------------
(* Input thread: relay_pointer_handle_event for one synced event, then ZMK's *)
(* own listener.  It is preempted between any two accesses.                  *)

InputIdle == [at |-> "idle", button |-> FALSE, press |-> FALSE, report |-> MouseReport(FALSE, 0, 0)]

CheckActive(button) ==
    /\ work = "idle" /\ input.at = "idle"
    /\ IF button THEN clicks < MaxClicks ELSE sum < MaxMotion
    /\ clicks' = IF button THEN clicks + 1 ELSE clicks
    /\ input' = [InputIdle EXCEPT !.at = IF paused THEN "listener" ELSE "add",
                                  !.button = button, !.press = clicks % 2 = 0]
    /\ UNCHANGED <<key_down, keys, key_ver, zmk_button, end_vars, point_vars, refresh_due,
                   isr_vars, queue_vars, work, polled_in_gap>>

add_motion ==
    /\ work = "idle" /\ input.at = "add" /\ ~input.button
    /\ sum' = sum + 1
    /\ input' = [input EXCEPT !.at = "listener"]
    /\ UNCHANGED <<zmk_vars, end_vars, buttons, button_ver, refresh_due, isr_vars,
                   queue_vars, work, polled_in_gap>>

add_button ==
    /\ work = "idle" /\ input.at = "add" /\ input.button
    /\ buttons' = input.press
    /\ button_ver' = IF buttons = input.press THEN button_ver ELSE button_ver + 1
    /\ input' = [input EXCEPT !.at = IF buttons = input.press THEN "listener" ELSE "stage"]
    /\ UNCHANGED <<zmk_vars, end_vars, sum, refresh_due, isr_vars, queue_vars, work,
                   polled_in_gap>>

stage_buttons ==
    /\ work = "idle" /\ input.at = "stage"
    /\ input' = [input EXCEPT !.at = "put", !.report = MouseReport(buttons, button_ver, 0)]
    /\ UNCHANGED <<zmk_vars, end_vars, point_vars, refresh_due, isr_vars, queue_vars,
                   work, polled_in_gap>>

PutButtons ==
    /\ work = "idle" /\ input.at = "put"
    /\ reply_queue' = Staged(reply_queue, input.report)
    /\ input' = [input EXCEPT !.at = IF reply_queue' = reply_queue THEN "listener" ELSE "count"]
    /\ UNCHANGED <<zmk_vars, end_vars, point_vars, refresh_due, isr_vars, replies_staged,
                   idle_reply, work, polled_in_gap>>

CountButtons ==
    /\ work = "idle" /\ input.at = "count"
    /\ replies_staged' = replies_staged + 1
    /\ input' = [input EXCEPT !.at = "listener"]
    /\ UNCHANGED <<zmk_vars, end_vars, point_vars, refresh_due, isr_vars, reply_queue,
                   idle_reply, work, polled_in_gap>>

(* ZMK's listener applies the button to its mouse report after the processors. *)
ZmkInputListener ==
    /\ work = "idle" /\ input.at = "listener"
    /\ zmk_button' = IF input.button THEN input.press ELSE zmk_button
    /\ input' = InputIdle
    /\ UNCHANGED <<key_down, keys, key_ver, clicks, end_vars, point_vars, refresh_due, isr_vars,
                   queue_vars, work, polled_in_gap>>

-----------------------------------------------------------------------------
(* Radio ISR. *)

(* Mutant: a paused relay reports no motion at all. *)
paused_totals_zero == IF paused THEN 0 ELSE sum

(* Paused, totals stay where the dongle last saw them. *)
stamp_totals == IF paused THEN written_body.total ELSE sum

esb_hid_relay_pointer_motion_pending == stamp_totals # written_body.total

(* Paused, a queued press goes out released. *)
esb_hid_relay_pointer_stamp(report) ==
    IF report.id # "mouse" THEN report
    ELSE IF paused THEN MouseReport(FALSE, button_ver, stamp_totals)
    ELSE MouseReport(report.down, report.ver, stamp_totals)

(* Mutant: the live buttons ride along while a change of them is queued. *)
buttons_overtake(changes_queued) ==
    IF paused THEN MouseReport(FALSE, button_ver, stamp_totals)
    ELSE MouseReport(buttons, button_ver, stamp_totals)

report_buttons(changes_queued) ==
    IF paused THEN MouseReport(FALSE, button_ver, stamp_totals)
    ELSE IF changes_queued THEN MouseReport(written_body.down, written_body.ver, stamp_totals)
    ELSE MouseReport(buttons, button_ver, stamp_totals)

body_is_written(report) ==
    report.down = written_body.down /\ report.total = written_body.total

esb_hid_relay_pointer_take(room, changes_queued) ==
    LET report == report_buttons(changes_queued)
    IN  IF room = 0 \/ (body_is_written(report) /\ ~refresh_due) THEN <<>> ELSE <<report>>

Mouses(reply) == {i \in 1..Len(reply) : reply[i].id = "mouse"}

(* The last mouse report of a reply becomes the last written one. *)
commit_pointer(reply) ==
    IF Mouses(reply) = {} THEN UNCHANGED <<written_body, refresh_due>>
    ELSE written_body' = reply[Max(Mouses(reply))] /\ refresh_due' = FALSE

queued_room == IF esb_hid_relay_pointer_motion_pending THEN ReplyRoom - 1 ELSE ReplyRoom

(* The reply is written or the FIFO refuses it; refused, nothing is consumed. *)
WriteReply(reply, taken, took) ==
    IF took
    THEN /\ ack_payload' = reply
         /\ reply_queue' = SubSeq(reply_queue, taken + 1, Len(reply_queue))
         /\ replies_written' = replies_written + taken
         /\ commit_pointer(reply)
    ELSE /\ ack_payload' = NoReply
         /\ UNCHANGED <<reply_queue, replies_written, written_body, refresh_due>>

(* Mutant: the queue is emptied before the write, which may be refused. *)
write_consumes_first(took) ==
    LET taken  == IF Len(reply_queue) < queued_room THEN Len(reply_queue) ELSE queued_room
        packed == [i \in 1..taken |-> esb_hid_relay_pointer_stamp(reply_queue[i])]
    IN  /\ ack_payload' = IF took THEN packed ELSE NoReply
        /\ reply_queue' = SubSeq(reply_queue, taken + 1, Len(reply_queue))
        /\ replies_written' = IF took THEN replies_written + taken ELSE replies_written
        /\ IF took THEN commit_pointer(packed) ELSE UNCHANGED <<written_body, refresh_due>>
        /\ UNCHANGED idle_reply

write_queued_replies(took) ==
    LET taken  == IF Len(reply_queue) < queued_room THEN Len(reply_queue) ELSE queued_room
        packed == [i \in 1..taken |-> esb_hid_relay_pointer_stamp(reply_queue[i])]
        rider  == IF Mouses(packed) # {} THEN <<>>
                  ELSE esb_hid_relay_pointer_take(ReplyRoom - taken, Len(reply_queue) > taken)
    IN  /\ WriteReply(packed \o rider, taken, took)
        /\ UNCHANGED idle_reply

(* Mutant: the latched state goes out however much was staged since. *)
any_idle_reply == idle_reply.reply # NoReply

(* A state latched before the last staged change is dropped. *)
fresh_idle_reply ==
    idle_reply.reply # NoReply /\ idle_reply.replies_staged = replies_staged

write_idle_reply(took) ==
    LET state == IF fresh_idle_reply THEN idle_reply.reply ELSE NoReply
        rider == esb_hid_relay_pointer_take(ReplyRoom - Len(state), FALSE)
    IN  /\ WriteReply(state \o rider, 0, took)
        /\ idle_reply' = IF fresh_idle_reply /\ ~took THEN idle_reply ELSE NoIdle

(* A beacon or mask update goes first and leaves the rest for the next poll. *)
write_pending_control ==
    /\ ack_payload' = NoReply
    /\ UNCHANGED <<reply_queue, replies_written, idle_reply, written_body, refresh_due>>

-----------------------------------------------------------------------------
(* Dongle: each report of a payload in turn, each taken or refused by USB.   *)

deliver_report(d, report, usb) ==
    IF report.down # d.keys /\ ~usb THEN d
    ELSE [d EXCEPT !.keys = report.down, !.keys_ver = report.ver]

(* Mutant: the baseline moves although USB refused the report. *)
pointer_forgets_refused(d, report, usb) ==
    LET valid == d.valid /\ ~d.silent
        delta == IF valid THEN report.total - d.total ELSE 0
        heard == [d EXCEPT !.silent = FALSE, !.total = report.total, !.valid = TRUE,
                           !.skipped = @ + (IF valid THEN 0 ELSE report.total - d.total)]
    IN  IF (delta # 0 \/ report.down # d.buttons) /\ ~usb THEN heard
        ELSE [heard EXCEPT !.host = @ + delta, !.buttons = report.down, !.buttons_ver = report.ver]

(* After a silence the tracks start over from this report.  A report USB     *)
(* refuses leaves them where they were: the next one carries its motion.     *)
deliver_pointer(d, report, usb) ==
    LET valid == d.valid /\ ~d.silent
        delta == IF valid THEN report.total - d.total ELSE 0
        heard == [d EXCEPT !.silent = FALSE, !.valid = valid]
    IN  IF (delta # 0 \/ report.down # d.buttons) /\ ~usb THEN heard
        ELSE [heard EXCEPT !.host = @ + delta, !.total = report.total, !.valid = TRUE,
                           !.skipped = @ + (IF valid THEN 0 ELSE report.total - d.total),
                           !.buttons = report.down, !.buttons_ver = report.ver]

esb_hid_relay_deliver(reply, usb) ==
    LET after[n \in 0..Len(reply)] ==
            IF n = 0 THEN dongle
            ELSE IF reply[n].id = "keys" THEN deliver_report(after[n - 1], reply[n], usb[n])
            ELSE deliver_pointer(after[n - 1], reply[n], usb[n])
    IN  after[Len(reply)]

(* What USB answers to each report of a payload; none when no ACK arrives. *)
NotHeard   == <<>>
UsbAnswers == {NotHeard} \union [1..Len(ack_payload) -> BOOLEAN]

(* A poll: its ACK brings the reply written at the last one, or never        *)
(* arrives, and the ISR writes the next.  Polls of one pipe are a poll       *)
(* period apart, so at most one falls between the workqueue's put and count. *)
Poll(usb) ==
    /\ work = "count" => ~polled_in_gap
    /\ polled_in_gap' = (work = "count")
    /\ dongle' = IF usb = NotHeard THEN dongle ELSE esb_hid_relay_deliver(ack_payload, usb)
    /\ \/ write_pending_control
       \/ \E took \in BOOLEAN :
              IF reply_queue # <<>> THEN write_queued_replies(took) ELSE write_idle_reply(took)
    /\ UNCHANGED <<zmk_vars, end_vars, point_vars, replies_staged, work, input>>

(* No mouse report reaches the dongle for longer than ESB_HOP_LOSS_DETECT_MS. *)
Silence ==
    /\ ~dongle.silent
    /\ dongle' = [dongle EXCEPT !.silent = TRUE]
    /\ UNCHANGED <<zmk_vars, end_vars, point_vars, refresh_due, written_body, ack_payload,
                   replies_written, queue_vars, work, polled_in_gap, input>>

Init ==
    /\ key_down = FALSE /\ key_ver = 0 /\ keys = 0
    /\ zmk_button = FALSE /\ clicks = 0
    /\ paused = FALSE /\ endpoints = 0
    /\ sum = 0 /\ buttons = FALSE /\ button_ver = 0
    /\ refresh_due = FALSE /\ written_body = MouseReport(FALSE, 0, 0)
    /\ reply_queue = <<>> /\ replies_staged = 0 /\ replies_written = 0
    /\ idle_reply = NoIdle /\ ack_payload = NoReply
    /\ work = "idle" /\ polled_in_gap = FALSE /\ input = InputIdle
    /\ dongle = [keys |-> FALSE, keys_ver |-> 0, buttons |-> FALSE, buttons_ver |-> 0,
                 valid |-> FALSE, silent |-> FALSE, total |-> 0, host |-> 0, skipped |-> 0]

Next ==
    \/ stage_keycode \/ CountKeycode
    \/ hid_relay_keepalive_fire
    \/ follow_endpoint \/ esb_hid_relay_pointer_reset \/ LatchEndpoint
    \/ \E button \in BOOLEAN : CheckActive(button)
    \/ add_motion \/ add_button
    \/ stage_buttons \/ PutButtons \/ CountButtons
    \/ ZmkInputListener
    \/ \E usb \in UsbAnswers : Poll(usb)
    \/ Silence

Spec == Init /\ [][Next]_vars

(* The workqueue and the input thread run, the keepalive repeats.  Losses    *)
(* are random: polls that write, and polls that bring a state or a mouse     *)
(* report to a USB host that takes it, happen again and again.               *)
GoodPoll == Poll([i \in 1..Len(ack_payload) |-> TRUE])
Writes   == GoodPoll /\ ack_payload' # NoReply
Brings   == GoodPoll /\ {ack_payload[i].id : i \in 1..Len(ack_payload)} = {"keys", "mouse"}

FairSpec ==
    /\ Spec
    /\ WF_vars(CountKeycode \/ esb_hid_relay_pointer_reset \/ LatchEndpoint)
    /\ WF_vars(add_motion \/ add_button \/ stage_buttons \/ PutButtons \/ CountButtons
               \/ ZmkInputListener)
    /\ WF_vars(hid_relay_keepalive_fire)
    /\ SF_vars(Writes) /\ SF_vars(Brings)

-----------------------------------------------------------------------------
(* The dongle's host never goes back to an older keyboard state: a latched   *)
(* state older than a queued change is dropped, even when the change left    *)
(* the queue before it was counted (esb_link_central.c esb_link_stage_reply, *)
(* fresh_idle_reply), also across pauses.                                    *)
KeysNeverBackwards == [][dongle'.keys_ver >= dongle.keys_ver]_vars

(* While the central keeps its endpoint, the host never goes back to an      *)
(* older button state: a mouse report that rides along does not overtake a   *)
(* queued change (esb_hid_relay_pointer.c report_buttons).                   *)
ButtonsInOrder == [][endpoints' = 0 => dongle'.buttons_ver >= dongle.buttons_ver]_vars

(* The host's pointer only moves forward by counts that were really moved:   *)
(* none is applied twice, and neither a pause, a refused report nor a        *)
(* silence makes it jump (stamp_totals, deliver_pointer).                    *)
MotionOnce == [][dongle'.host >= dongle.host /\ dongle'.host <= sum']_vars

(* Every report the queue accepted is still in it or reached the ACK FIFO    *)
(* once; the counter trails only the threads between put and count.          *)
QueueAccounted ==
    Len(reply_queue) + replies_written
        = replies_staged + (IF work = "count" THEN 1 ELSE 0) + (IF input.at = "count" THEN 1 ELSE 0)

(* With no more input, the dongle's host ends up with the keys and buttons   *)
(* of the relay, or none while it is paused, and with every count that was   *)
(* not skipped by a silence.                                                 *)
RelayConverges ==
    <>[](/\ dongle.keys = (key_down /\ ~paused)
         /\ dongle.buttons = (buttons /\ ~paused)
         /\ ~paused => dongle.host + dongle.skipped = sum)

(* A button held when the central's own host goes away is pressed again on   *)
(* the dongle's (tests/mock/central_hid_relay/host_resume_represses_held_button). *)
HeldButtonReturns == <>[](~paused => dongle.buttons = zmk_button)
=============================================================================
