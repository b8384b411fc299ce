-------------------------- MODULE RelayLinkProofs --------------------------
(***************************************************************************)
(* The HID relay, for every queue depth, reply size and bound: every queued *)
(* report is accounted for, and neither keys, buttons nor motion go back or *)
(* are applied twice at the dongle's host.                                  *)
(***************************************************************************)
EXTENDS RelayLink, SequenceTheorems, WellFoundedInduction, TLAPS

(* A nonempty set of numbers has a smallest one. *)
LEMMA Smallest ==
    ASSUME NEW T, T \subseteq Nat, T # {}
    PROVE  \E s \in T : \A t \in T : s <= t
<1>1. \E s \in T : \A t \in T : ~(<<t, s>> \in OpToRel(<, Nat))
  BY NatLessThanWellFounded, WFMin
<1>2. \E s \in T : \A t \in T : ~(t < s)
  BY <1>1 DEF OpToRel
<1> QED BY <1>2

(* Induction up to a length, for a set of numbers. *)
LEMMA UpTo ==
    ASSUME NEW L \in Nat, NEW S, 0 \in S, \A n \in 0..(L - 1) : n \in S => n + 1 \in S
    PROVE  0..L \subseteq S
<1> DEFINE T == {n \in 0..L : n \notin S}
<1> SUFFICES ASSUME T # {} PROVE FALSE
  OBVIOUS
<1>1. T \subseteq Nat
  OBVIOUS
<1> HIDE DEF T
<1>2. PICK s \in T : \A t \in T : s <= t
  BY <1>1, Smallest
<1>3. s \in Nat /\ s # 0 /\ s <= L
  BY <1>1 DEF T
<1>4. s - 1 \in 0..(L - 1) /\ s - 1 \in 0..L /\ ~(s <= s - 1) /\ (s - 1) + 1 = s
  BY <1>3
<1>5. s - 1 \in S
  BY <1>2, <1>4 DEF T
<1>6. s \in S
  BY <1>4, <1>5
<1> QED BY <1>6 DEF T

(* A sequence of one element. *)
LEMMA Single ==
    ASSUME NEW S, NEW x \in S
    PROVE  <<x>> \in Seq(S) /\ Len(<<x>>) = 1 /\ <<x>>[1] = x /\ <<x>> # <<>>
OBVIOUS

(* The last index of a set of them. *)
LEMMA LastOf ==
    ASSUME NEW n \in Nat, NEW S, S \subseteq 1..n, S # {}
    PROVE  Max(S) \in S /\ \A y \in S : Max(S) >= y
<1> DEFINE T == {n - x : x \in S}
<1>1. T \subseteq Nat /\ T # {}
  OBVIOUS
<1>2. PICK s \in T : \A t \in T : s <= t
  BY <1>1, Smallest
<1>3. PICK x \in S : s = n - x
  BY <1>2
<1>4. ASSUME NEW y \in S PROVE x >= y
  <2>1. n - y \in T /\ x \in 1..n /\ y \in 1..n
    OBVIOUS
  <2>2. n - x <= n - y
    BY <1>2, <1>3, <2>1
  <2> QED BY <2>1, <2>2
<1>5. \E z \in S : \A y \in S : z >= y
  BY <1>3, <1>4
<1> QED BY <1>5 DEF Max

-----------------------------------------------------------------------------
(* Reports, the input thread's place, and the dongle. *)
Reports == [id : {"keys", "mouse"}, down : BOOLEAN, ver : Nat, total : Nat]
Inputs  == [at : {"idle", "add", "stage", "put", "count", "listener"}, button : BOOLEAN,
            press : BOOLEAN, report : Reports]
Dongles == [keys : BOOLEAN, keys_ver : Nat, buttons : BOOLEAN, buttons_ver : Nat,
            valid : BOOLEAN, silent : BOOLEAN, total : Nat, host : Int, skipped : Int]

(* What each thread, the ISR and the dongle hold.  Latched state is keyboard *)
(* state, the input thread stages mouse reports only.                        *)
RelayTypes ==
    /\ key_down \in BOOLEAN /\ key_ver \in Nat /\ keys \in Nat
    /\ zmk_button \in BOOLEAN /\ clicks \in Nat
    /\ paused \in BOOLEAN /\ endpoints \in Nat
    /\ sum \in Nat /\ buttons \in BOOLEAN /\ button_ver \in Nat /\ refresh_due \in BOOLEAN
    /\ written_body \in Reports /\ written_body.id = "mouse"
    /\ reply_queue \in Seq(Reports) /\ replies_staged \in Nat /\ replies_written \in Nat
    /\ idle_reply.replies_staged \in Nat
    /\ idle_reply.reply # NoReply => \E down \in BOOLEAN, v \in Nat :
                                         idle_reply.reply = <<KeyReport(down, v)>>
    /\ ack_payload \in Seq(Reports)
    /\ work \in {"idle", "count", "reset", "latch"} /\ polled_in_gap \in BOOLEAN
    /\ input \in Inputs /\ input.report.id = "mouse"
    /\ dongle \in Dongles

(* Reports are reports. *)
LEMMA ReportTypes ==
    /\ \A down \in BOOLEAN, v \in Nat : KeyReport(down, v) \in Reports
    /\ \A down \in BOOLEAN, v \in Nat, total \in Nat : MouseReport(down, v, total) \in Reports
BY DEF KeyReport, MouseReport, Reports

(* What the ISR stamps and adds is a report of the same kind. *)
LEMMA StampTypes ==
    ASSUME RelayTypes
    PROVE  /\ stamp_totals \in Nat
           /\ \A r \in Reports : /\ esb_hid_relay_pointer_stamp(r) \in Reports
                                 /\ esb_hid_relay_pointer_stamp(r).id = r.id
                                 /\ r.id = "keys" => esb_hid_relay_pointer_stamp(r) = r
           /\ \A queued \in BOOLEAN : /\ report_buttons(queued) \in Reports
                                      /\ report_buttons(queued).id = "mouse"
<1>1. stamp_totals \in Nat
  BY DEF RelayTypes, stamp_totals, Reports
<1>2. /\ button_ver \in Nat /\ paused \in BOOLEAN /\ buttons \in BOOLEAN
      /\ written_body.ver \in Nat /\ written_body.down \in BOOLEAN
  BY DEF RelayTypes, Reports
<1>3. ASSUME NEW r \in Reports
      PROVE  /\ esb_hid_relay_pointer_stamp(r) \in Reports
             /\ esb_hid_relay_pointer_stamp(r).id = r.id
             /\ r.id = "keys" => esb_hid_relay_pointer_stamp(r) = r
  <2>1. CASE r.id = "keys"
    BY <2>1 DEF esb_hid_relay_pointer_stamp
  <2>2. CASE r.id = "mouse"
    <3>1. r.down \in BOOLEAN /\ r.ver \in Nat
      BY DEF Reports
    <3> QED
      BY <1>1, <1>2, <2>2, <3>1 DEF esb_hid_relay_pointer_stamp, MouseReport, Reports
  <2> QED BY <2>1, <2>2 DEF Reports
<1>4. ASSUME NEW queued \in BOOLEAN
      PROVE  report_buttons(queued) \in Reports /\ report_buttons(queued).id = "mouse"
  BY <1>1, <1>2 DEF report_buttons, MouseReport, Reports
<1> QED BY <1>1, <1>3, <1>4

(* What a poll leaves behind: the first reports of the queue went into the   *)
(* reply, or none did; the last mouse report of the reply is the written one. *)
Consumes(taken) ==
    /\ reply_queue' \in Seq(Reports) /\ Len(reply_queue') = Len(reply_queue) - taken
    /\ \A i \in 1..Len(reply_queue') : /\ i + taken \in 1..Len(reply_queue)
                                       /\ reply_queue'[i] = reply_queue[i + taken]
    /\ replies_written' = replies_written + taken
Commits(reply) ==
    \/ /\ \A i \in 1..Len(reply) : reply[i].id # "mouse"
       /\ written_body' = written_body /\ refresh_due' = refresh_due
    \/ /\ refresh_due' = FALSE
       /\ \E m \in 1..Len(reply) :
              /\ written_body' = reply[m] /\ reply[m].id = "mouse"
              /\ \A i \in 1..Len(reply) : reply[i].id = "mouse" => i <= m

(* A write that the FIFO takes consumes and commits; a refused one neither. *)
LEMMA ReplyWritten ==
    ASSUME RelayTypes, NEW reply \in Seq(Reports), NEW taken \in 0..Len(reply_queue),
           NEW took \in BOOLEAN, WriteReply(reply, taken, took)
    PROVE  \/ ack_payload' = reply /\ Consumes(taken) /\ Commits(reply)
           \/ ack_payload' = <<>> /\ Consumes(0) /\ Commits(<<>>)
<1>1. reply_queue \in Seq(Reports) /\ replies_written \in Nat /\ Len(reply_queue) \in Nat
  BY DEF RelayTypes
<1>2. CASE took
  <2>1. /\ ack_payload' = reply
        /\ reply_queue' = SubSeq(reply_queue, taken + 1, Len(reply_queue))
        /\ replies_written' = replies_written + taken
        /\ commit_pointer(reply)
    BY <1>2 DEF WriteReply
  <2>2. Consumes(taken)
    <3>1. /\ taken + 1 \in Int /\ Len(reply_queue) \in Int
          /\ \A i \in (taken + 1)..Len(reply_queue) : reply_queue[i] \in Reports
      BY <1>1
    <3>2. /\ reply_queue' \in Seq(Reports)
          /\ Len(reply_queue') = IF taken + 1 <= Len(reply_queue)
                                 THEN Len(reply_queue) - (taken + 1) + 1 ELSE 0
          /\ \A i \in 1..(Len(reply_queue) - (taken + 1) + 1) :
                 reply_queue'[i] = reply_queue[taken + 1 + i - 1]
      BY <2>1, <3>1, SubSeqProperties
    <3>3. Len(reply_queue') = Len(reply_queue) - taken
      BY <1>1, <3>2
    <3>4. \A i \in 1..Len(reply_queue') :
              /\ i \in 1..(Len(reply_queue) - (taken + 1) + 1)
              /\ i + taken \in 1..Len(reply_queue) /\ taken + 1 + i - 1 = i + taken
      BY <1>1, <3>3
    <3> QED
      BY <2>1, <3>2, <3>3, <3>4 DEF Consumes
  <2>3. CASE Mouses(reply) = {}
    <3>1. \A i \in 1..Len(reply) : reply[i].id # "mouse"
      BY <2>3 DEF Mouses
    <3> QED
      BY <2>1, <2>2, <2>3, <3>1 DEF commit_pointer, Commits
  <2>4. CASE Mouses(reply) # {}
    <3> DEFINE m == Max(Mouses(reply))
    <3>1. m \in Mouses(reply) /\ \A y \in Mouses(reply) : m >= y
      <4>1. Len(reply) \in Nat /\ Mouses(reply) \subseteq 1..Len(reply)
        BY DEF Mouses
      <4> QED BY <2>4, <4>1, LastOf
    <3>2. written_body' = reply[m] /\ refresh_due' = FALSE
      BY <2>1, <2>4 DEF commit_pointer
    <3> HIDE DEF m
    <3>3. /\ m \in 1..Len(reply) /\ reply[m].id = "mouse"
          /\ \A i \in 1..Len(reply) : reply[i].id = "mouse" => i <= m
      BY <3>1 DEF Mouses
    <3>4. Commits(reply)
      BY <3>2, <3>3 DEF Commits
    <3> QED BY <2>1, <2>2, <3>4
  <2> QED BY <2>3, <2>4
<1>3. CASE ~took
  <2>1. /\ ack_payload' = <<>>
        /\ UNCHANGED <<reply_queue, replies_written, written_body, refresh_due>>
    BY <1>3 DEF WriteReply, NoReply
  <2>2. Commits(<<>>)
    BY <2>1 DEF Commits
  <2>3. Consumes(0)
    <3>1. \A i \in 1..Len(reply_queue) : i + 0 = i
      BY <1>1
    <3> QED BY <1>1, <2>1, <3>1 DEF Consumes
  <2> QED BY <2>1, <2>2, <2>3
<1> QED BY <1>2, <1>3

(* Where the reports of a reply come from: the queue, stamped; the latched   *)
(* state, if nothing was staged since; the mouse report that rides along.    *)
QueuedAt(reply, i, taken) ==
    i <= taken /\ reply[i] = esb_hid_relay_pointer_stamp(reply_queue[i])
LatchedAt(reply, i, taken) ==
    /\ i = 1 /\ taken = 0 /\ reply_queue = <<>>
    /\ fresh_idle_reply /\ reply[i] = idle_reply.reply[1]
RidesAt(reply, i, taken) ==
    /\ i = Len(reply) /\ reply[i] = report_buttons(Len(reply_queue) > taken)
    /\ \A j \in 1..Len(reply) : j < i => reply[j].id = "keys"
Packed(reply, taken) ==
    /\ reply \in Seq(Reports)
    /\ \A i \in 1..Len(reply) : \/ QueuedAt(reply, i, taken) \/ LatchedAt(reply, i, taken)
                                \/ RidesAt(reply, i, taken)

(* A mouse report may ride behind a reply that has none. *)
LEMMA RiderPacked ==
    ASSUME RelayTypes, NEW taken \in 0..Len(reply_queue), NEW base \in Seq(Reports),
           NEW rider \in {<<>>, <<report_buttons(Len(reply_queue) > taken)>>},
           \A i \in 1..Len(base) :
               QueuedAt(base, i, taken) \/ LatchedAt(base, i, taken),
           rider # <<>> => \A i \in 1..Len(base) : base[i].id = "keys"
    PROVE  Packed(base \o rider, taken)
<1>1. /\ report_buttons(Len(reply_queue) > taken) \in Reports
      /\ report_buttons(Len(reply_queue) > taken).id = "mouse"
  <2>1. (Len(reply_queue) > taken) \in BOOLEAN
    OBVIOUS
  <2> QED BY <2>1, StampTypes
<1>2. /\ rider \in Seq(Reports) /\ Len(rider) \in 0..1 /\ Len(base) \in Nat
      /\ Len(rider) = 1 =>
             rider # <<>> /\ rider[1] = report_buttons(Len(reply_queue) > taken)
  <2>1. CASE rider = <<>>
    BY <2>1
  <2>2. CASE rider = <<report_buttons(Len(reply_queue) > taken)>>
    <3> DEFINE r == report_buttons(Len(reply_queue) > taken)
    <3>1. r \in Reports
      BY <1>1
    <3> HIDE DEF r
    <3>2. <<r>> \in Seq(Reports) /\ Len(<<r>>) = 1 /\ <<r>>[1] = r /\ <<r>> # <<>>
      BY <3>1, Single
    <3>3. 1 \in 0..1 /\ Len(base) \in Nat
      OBVIOUS
    <3>4. rider = <<r>>
      BY <2>2 DEF r
    <3>5. rider \in Seq(Reports) /\ Len(rider) \in 0..1 /\ rider[1] = r /\ rider # <<>>
      BY <3>2, <3>3, <3>4, Zenon
    <3> QED BY <3>3, <3>5 DEF r
  <2> QED BY <2>1, <2>2
<1> DEFINE reply == base \o rider
<1>3. /\ reply \in Seq(Reports) /\ Len(reply) = Len(base) + Len(rider)
      /\ \A i \in 1..(Len(base) + Len(rider)) :
             reply[i] = IF i <= Len(base) THEN base[i] ELSE rider[i - Len(base)]
  BY <1>2, ConcatProperties
<1> HIDE DEF reply
<1>4. ASSUME NEW i \in 1..Len(reply)
      PROVE  \/ QueuedAt(reply, i, taken) \/ LatchedAt(reply, i, taken)
             \/ RidesAt(reply, i, taken)
  <2>1. CASE i <= Len(base)
    <3>1. i \in 1..Len(base) /\ i \in 1..(Len(base) + Len(rider))
      <4>1. Len(base) \in Nat /\ Len(reply) = Len(base) + Len(rider) /\ Len(reply) \in Nat
        BY <1>2, <1>3
      <4>2. \A b \in Nat, m \in Nat : \A n \in 1..m : n <= b => n \in 1..b
        OBVIOUS
      <4> QED BY <2>1, <4>1, <4>2
    <3>2. reply[i] = base[i]
      BY <1>3, <2>1, <3>1
    <3> QED BY <3>1, <3>2 DEF QueuedAt, LatchedAt
  <2>2. CASE ~(i <= Len(base))
    <3>1. /\ Len(rider) = 1 /\ i = Len(base) + 1 /\ i = Len(reply)
          /\ i - Len(base) = 1
      <4>1. Len(rider) \in 0..1 /\ Len(base) \in Nat /\ Len(reply) = Len(base) + Len(rider)
        BY <1>2, <1>3
      <4>2. \A b \in Nat, m \in 0..1 : \A n \in 1..(b + m) :
                ~(n <= b) => m = 1 /\ n = b + 1 /\ n = b + m /\ n - b = 1
        OBVIOUS
      <4>3. i \in 1..(Len(base) + Len(rider))
        BY <4>1
      <4> QED BY <2>2, <4>1, <4>2, <4>3, Zenon
    <3>2. rider # <<>> /\ rider[1] = report_buttons(Len(reply_queue) > taken)
      BY <1>2, <3>1
    <3>3. reply[i] = rider[1]
      BY <1>3, <2>2, <3>1
    <3>4. ASSUME NEW j \in 1..Len(reply), j < i PROVE reply[j].id = "keys"
      <4>1. j \in 1..Len(base) /\ j <= Len(base) /\ j \in 1..(Len(base) + Len(rider))
        BY <1>2, <1>3, <3>1, <3>4
      <4> QED BY <1>3, <3>2, <4>1
    <3> QED BY <3>1, <3>2, <3>3, <3>4 DEF RidesAt
  <2> QED BY <2>1, <2>2
<1> QED BY <1>3, <1>4 DEF Packed, reply

(* Every poll packs queued reports, or the latched state, or nothing. *)
LEMMA PollWrites ==
    ASSUME RelayTypes, NEW usb, Poll(usb)
    PROVE  /\ \E taken \in 0..Len(reply_queue) :
                  Consumes(taken) /\ Packed(ack_payload', taken) /\ Commits(ack_payload')
           /\ idle_reply' \in {idle_reply, NoIdle}
<1>0. reply_queue \in Seq(Reports) /\ Len(reply_queue) \in Nat
  BY DEF RelayTypes
<1>1. Packed(<<>>, 0)
  BY DEF Packed
<1>2. ASSUME NEW reply, NEW taken \in 0..Len(reply_queue), NEW took \in BOOLEAN,
             WriteReply(reply, taken, took), Packed(reply, taken)
      PROVE  \E n \in 0..Len(reply_queue) :
                 Consumes(n) /\ Packed(ack_payload', n) /\ Commits(ack_payload')
  <2>1. 0 \in 0..Len(reply_queue) /\ reply \in Seq(Reports)
    BY <1>0, <1>2 DEF Packed
  <2>2. CASE ack_payload' = reply /\ Consumes(taken) /\ Commits(reply)
    BY <1>2, <2>2
  <2>3. CASE ack_payload' = <<>> /\ Consumes(0) /\ Commits(<<>>)
    BY <1>1, <2>1, <2>3
  <2> QED BY <1>2, <2>1, <2>2, <2>3, ReplyWritten
<1>3. CASE write_pending_control
  <2>1. /\ ack_payload' = <<>> /\ reply_queue' = reply_queue /\ written_body' = written_body
        /\ replies_written' = replies_written /\ refresh_due' = refresh_due
        /\ idle_reply' = idle_reply
    BY <1>3 DEF write_pending_control, NoReply
  <2>2. Consumes(0)
    <3>1. \A i \in 1..Len(reply_queue) : i + 0 = i
      BY <1>0
    <3>2. replies_written + 0 = replies_written
      BY DEF RelayTypes
    <3> QED BY <1>0, <2>1, <3>1, <3>2 DEF Consumes
  <2>3. Commits(<<>>)
    BY <2>1 DEF Commits
  <2>4. 0 \in 0..Len(reply_queue)
    BY <1>0
  <2> QED BY <1>1, <2>1, <2>2, <2>3, <2>4
<1>4. ASSUME NEW took \in BOOLEAN, write_queued_replies(took)
      PROVE  /\ \E taken \in 0..Len(reply_queue) :
                    Consumes(taken) /\ Packed(ack_payload', taken) /\ Commits(ack_payload')
             /\ idle_reply' = idle_reply
  <2> DEFINE taken  == IF Len(reply_queue) < queued_room THEN Len(reply_queue) ELSE queued_room
             packed == [i \in 1..taken |-> esb_hid_relay_pointer_stamp(reply_queue[i])]
             rider  == IF Mouses(packed) # {} THEN <<>>
                       ELSE esb_hid_relay_pointer_take(ReplyRoom - taken, Len(reply_queue) > taken)
  <2>1. WriteReply(packed \o rider, taken, took) /\ idle_reply' = idle_reply
    BY <1>4 DEF write_queued_replies
  <2>2. taken \in 0..Len(reply_queue)
    <3>1. queued_room \in Nat
      BY SizeAssumption DEF queued_room
    <3> QED BY <1>0, <3>1
  <2> HIDE DEF taken
  <2>3. /\ packed \in Seq(Reports) /\ Len(packed) = taken
        /\ \A i \in 1..taken : packed[i] = esb_hid_relay_pointer_stamp(reply_queue[i])
    <3>1. \A i \in 1..taken : esb_hid_relay_pointer_stamp(reply_queue[i]) \in Reports
      BY <1>0, <2>2, StampTypes
    <3> QED BY <2>2, <3>1
  <2> HIDE DEF packed
  <2>4. rider \in {<<>>, <<report_buttons(Len(reply_queue) > taken)>>}
    BY DEF esb_hid_relay_pointer_take
  <2>5. rider # <<>> => \A i \in 1..Len(packed) : packed[i].id = "keys"
    <3>1. \A i \in 1..Len(packed) : packed[i].id \in {"keys", "mouse"}
      <4>1. \A i \in 1..Len(packed) : packed[i] \in Reports
        BY <2>3
      <4>2. \A r \in Reports : r.id \in {"keys", "mouse"}
        BY DEF Reports
      <4> QED BY <4>1, <4>2
    <3>2. rider # <<>> => Mouses(packed) = {}
      OBVIOUS
    <3> QED BY <3>1, <3>2 DEF Mouses
  <2>6. \A i \in 1..Len(packed) : QueuedAt(packed, i, taken)
    BY <2>2, <2>3 DEF QueuedAt
  <2> HIDE DEF rider
  <2>7. Packed(packed \o rider, taken)
    BY <2>2, <2>3, <2>4, <2>5, <2>6, RiderPacked
  <2> QED BY <1>2, <2>1, <2>2, <2>7
<1>5. ASSUME NEW took \in BOOLEAN, reply_queue = <<>>, write_idle_reply(took)
      PROVE  /\ \E taken \in 0..Len(reply_queue) :
                    Consumes(taken) /\ Packed(ack_payload', taken) /\ Commits(ack_payload')
             /\ idle_reply' \in {idle_reply, NoIdle}
  <2> DEFINE state == IF fresh_idle_reply THEN idle_reply.reply ELSE NoReply
             rider == esb_hid_relay_pointer_take(ReplyRoom - Len(state), FALSE)
  <2>1. WriteReply(state \o rider, 0, took) /\ idle_reply' \in {idle_reply, NoIdle}
    BY <1>5 DEF write_idle_reply
  <2>2. 0 \in 0..Len(reply_queue) /\ (Len(reply_queue) > 0) = FALSE
    BY <1>5
  <2>3. /\ state \in Seq(Reports)
        /\ \A i \in 1..Len(state) : LatchedAt(state, i, 0) /\ state[i].id = "keys"
    <3>1. CASE fresh_idle_reply
      <4>1. PICK down \in BOOLEAN, v \in Nat : idle_reply.reply = <<KeyReport(down, v)>>
        BY <3>1 DEF fresh_idle_reply, RelayTypes
      <4>2. state = <<KeyReport(down, v)>> /\ KeyReport(down, v) \in Reports
        BY <3>1, <4>1, ReportTypes
      <4>3. KeyReport(down, v).id = "keys"
        BY DEF KeyReport
      <4>4. state \in Seq(Reports) /\ Len(state) = 1 /\ state[1] = KeyReport(down, v)
        BY <4>2, Single, Zenon
      <4>5. idle_reply.reply[1] = KeyReport(down, v)
        BY <4>1
      <4> HIDE DEF state
      <4>6. \A i \in 1..Len(state) : i = 1
        BY <4>4
      <4> QED BY <1>5, <3>1, <4>3, <4>4, <4>5, <4>6 DEF LatchedAt
    <3>2. CASE ~fresh_idle_reply
      BY <3>2 DEF NoReply
    <3> QED BY <3>1, <3>2
  <2>4. rider \in {<<>>, <<report_buttons(Len(reply_queue) > 0)>>}
    BY <2>2 DEF esb_hid_relay_pointer_take
  <2> HIDE DEF rider, state
  <2>5. Packed(state \o rider, 0)
    BY <2>2, <2>3, <2>4, RiderPacked
  <2> QED BY <1>2, <2>1, <2>2, <2>5
<1> QED
  BY <1>3, <1>4, <1>5 DEF Poll

-----------------------------------------------------------------------------
(* What the dongle does with one report. *)
Delivered(d, report, usb) ==
    IF report.id = "keys" THEN deliver_report(d, report, usb) ELSE deliver_pointer(d, report, usb)

(* A report taken moves its own side to the report's state; its counts go to *)
(* the host or, after a silence, are skipped.                                *)
LEMMA DeliveredReport ==
    ASSUME NEW d \in Dongles, NEW report \in Reports, NEW usb \in BOOLEAN
    PROVE  LET e == Delivered(d, report, usb)
           IN  /\ e \in Dongles
               /\ \/ e.keys_ver = d.keys_ver
                  \/ report.id = "keys" /\ e.keys_ver = report.ver
               /\ \/ e.buttons_ver = d.buttons_ver
                  \/ report.id = "mouse" /\ e.buttons_ver = report.ver
               /\ \/ e.total = d.total /\ e.host = d.host /\ e.skipped = d.skipped
                  \/ /\ report.id = "mouse" /\ e.total = report.total
                     /\ \/ e.host = d.host + (report.total - d.total) /\ e.skipped = d.skipped
                        \/ e.host = d.host /\ e.skipped = d.skipped + (report.total - d.total)
<1> DEFINE e == Delivered(d, report, usb)
<1>0. /\ report.down \in BOOLEAN /\ report.ver \in Nat /\ report.total \in Nat
      /\ report.id \in {"keys", "mouse"}
  BY DEF Reports
<1>1. /\ d.total \in Nat /\ d.host \in Int /\ d.skipped \in Int
      /\ d.valid \in BOOLEAN /\ d.silent \in BOOLEAN
      /\ d.keys \in BOOLEAN /\ d.keys_ver \in Nat
      /\ d.buttons \in BOOLEAN /\ d.buttons_ver \in Nat
  BY DEF Dongles
<1>2. CASE report.id = "keys"
  <2>1. \/ e = d
        \/ e = [d EXCEPT !.keys = report.down, !.keys_ver = report.ver]
    BY <1>2 DEF Delivered, deliver_report
  <2> HIDE DEF e
  <2>2. CASE e = d
    BY <2>2 DEF e
  <2>3. CASE e = [d EXCEPT !.keys = report.down, !.keys_ver = report.ver]
    <3>1. e \in Dongles
      BY <1>0, <2>3 DEF Dongles
    <3>2. /\ e.keys_ver = report.ver /\ e.buttons_ver = d.buttons_ver
          /\ e.total = d.total /\ e.host = d.host /\ e.skipped = d.skipped
      BY <2>3 DEF Dongles
    <3> QED BY <1>2, <3>1, <3>2 DEF e
  <2> QED BY <2>1, <2>2, <2>3
<1>3. CASE report.id = "mouse"
  <2> DEFINE valid == d.valid /\ ~d.silent
             delta == IF valid THEN report.total - d.total ELSE 0
             skip  == IF valid THEN 0 ELSE report.total - d.total
             heard == [d EXCEPT !.silent = FALSE, !.valid = valid]
  <2>1. \/ e = heard
        \/ e = [heard EXCEPT !.host = @ + delta, !.total = report.total, !.valid = TRUE,
                             !.skipped = @ + skip,
                             !.buttons = report.down, !.buttons_ver = report.ver]
    BY <1>3 DEF Delivered, deliver_pointer
  <2>2. heard \in Dongles
    BY <1>1 DEF Dongles
  <2>3. /\ heard.keys_ver = d.keys_ver /\ heard.buttons_ver = d.buttons_ver
        /\ heard.total = d.total /\ heard.host = d.host /\ heard.skipped = d.skipped
    BY DEF Dongles
  <2>4. /\ delta \in Int /\ skip \in Int
        /\ \/ delta = report.total - d.total /\ skip = 0
           \/ delta = 0 /\ skip = report.total - d.total
    BY <1>0, <1>1
  <2> HIDE DEF e, heard, delta, skip
  <2>5. CASE e = heard
    BY <2>2, <2>3, <2>5 DEF e
  <2>6. CASE e = [heard EXCEPT !.host = @ + delta, !.total = report.total, !.valid = TRUE,
                               !.skipped = @ + skip,
                               !.buttons = report.down, !.buttons_ver = report.ver]
    <3>1. d.host + delta \in Int /\ d.skipped + skip \in Int
      BY <1>1, <2>4
    <3>2. e \in Dongles
      BY <1>0, <2>2, <2>3, <2>6, <3>1 DEF Dongles
    <3>3. /\ e.keys_ver = d.keys_ver /\ e.buttons_ver = report.ver /\ e.total = report.total
          /\ e.host = d.host + delta /\ e.skipped = d.skipped + skip
      BY <2>2, <2>3, <2>6 DEF Dongles
    <3>4. \/ e.host = d.host + (report.total - d.total) /\ e.skipped = d.skipped
          \/ e.host = d.host /\ e.skipped = d.skipped + (report.total - d.total)
      BY <1>0, <1>1, <2>4, <3>3
    <3> QED BY <1>3, <3>2, <3>3, <3>4 DEF e
  <2> QED BY <2>1, <2>5, <2>6
<1> QED BY <1>0, <1>2, <1>3

(* esb_hid_relay_deliver goes through the states between two reports. *)
LEMMA DeliveryPath ==
    ASSUME NEW reply \in Seq(Reports), NEW usb \in [1..Len(reply) -> BOOLEAN], dongle \in Dongles
    PROVE  \E f \in [0..Len(reply) -> Dongles] :
               /\ f[0] = dongle
               /\ \A n \in 1..Len(reply) : f[n] = Delivered(f[n - 1], reply[n], usb[n])
               /\ esb_hid_relay_deliver(reply, usb) = f[Len(reply)]
<1> DEFINE L == Len(reply)
           At(g, n) == IF n = 0 THEN dongle
                       ELSE IF reply[n].id = "keys" THEN deliver_report(g[n - 1], reply[n], usb[n])
                       ELSE deliver_pointer(g[n - 1], reply[n], usb[n])
           S == {n \in 0..L : \E g \in [0..n -> Dongles] : \A m \in 0..n : g[m] = At(g, m)}
           after[n \in 0..Len(reply)] ==
               IF n = 0 THEN dongle
               ELSE IF reply[n].id = "keys" THEN deliver_report(after[n - 1], reply[n], usb[n])
               ELSE deliver_pointer(after[n - 1], reply[n], usb[n])
<1>0. L \in Nat
  OBVIOUS
<1>1. 0 \in S
  <2> DEFINE g == [i \in 0..0 |-> dongle]
  <2>1. g \in [0..0 -> Dongles] /\ \A m \in 0..0 : g[m] = At(g, m)
    OBVIOUS
  <2>2. 0 \in 0..L
    BY <1>0
  <2> HIDE DEF g, At, L
  <2> QED BY <2>1, <2>2
<1>2. ASSUME NEW n \in 0..(L - 1), n \in S PROVE n + 1 \in S
  <2>1. PICK g \in [0..n -> Dongles] : \A m \in 0..n : g[m] = At(g, m)
    BY <1>2
  <2> DEFINE h == [i \in 0..(n + 1) |-> IF i <= n THEN g[i] ELSE At(g, n + 1)]
  <2>2. /\ n \in Nat /\ n + 1 \in 0..L /\ n + 1 \in 1..L /\ n + 1 # 0 /\ (n + 1) - 1 = n
        /\ n \in 0..n
    BY <1>0, <1>2
  <2>3. At(g, n + 1) \in Dongles
    <3>1. At(g, n + 1) = Delivered(g[n], reply[n + 1], usb[n + 1])
      BY <2>2 DEF Delivered
    <3>2. g[n] \in Dongles /\ reply[n + 1] \in Reports /\ usb[n + 1] \in BOOLEAN
      BY <2>1, <2>2
    <3> QED BY <3>1, <3>2, DeliveredReport
  <2>4. h \in [0..(n + 1) -> Dongles]
    <3> HIDE DEF At
    <3> QED BY <2>1, <2>2, <2>3
  <2>5. \A m \in 0..(n + 1) : h[m] = At(h, m)
    <3> TAKE m \in 0..(n + 1)
    <3>1. CASE m <= n
      <4>1. m = 0 \/ (m - 1 \in 0..n /\ m - 1 \in 0..(n + 1) /\ m - 1 <= n)
        BY <2>2, <3>1
      <4>2. m \in 0..n /\ h[m] = g[m]
        BY <2>2, <3>1
      <4>3. m = 0 \/ h[m - 1] = g[m - 1]
        BY <4>1
      <4>4. At(h, m) = At(g, m)
        BY <4>3
      <4> QED BY <2>1, <4>2, <4>4
    <3>2. CASE m = n + 1
      <4>1. m # 0 /\ m - 1 = n /\ n \in 0..(n + 1) /\ ~(m <= n) /\ n <= n
        BY <2>2, <3>2
      <4>2. h[n] = g[n]
        BY <4>1
      <4>3. h[m] = At(g, m)
        <5> HIDE DEF At
        <5> QED BY <3>2, <4>1
      <4>4. At(h, m) = At(g, m)
        BY <4>1, <4>2
      <4> QED BY <4>3, <4>4
    <3> QED BY <2>2, <3>1, <3>2
  <2> HIDE DEF h, At, L
  <2> QED BY <2>2, <2>4, <2>5
<1>3. L \in S
  <2>1. 0..L \subseteq S
    <3> HIDE DEF S, L
    <3> QED BY <1>0, <1>1, <1>2, UpTo
  <2> HIDE DEF S, L
  <2> QED BY <1>0, <2>1
<1>4. PICK f \in [0..L -> Dongles] : \A m \in 0..L : f[m] = At(f, m)
  <2> HIDE DEF At
  <2> QED BY <1>3
<1>5. f = [n \in 0..Len(reply) |->
              IF n = 0 THEN dongle
              ELSE IF reply[n].id = "keys" THEN deliver_report(f[n - 1], reply[n], usb[n])
              ELSE deliver_pointer(f[n - 1], reply[n], usb[n])]
  BY <1>4
<1>6. after = [n \in 0..Len(reply) |->
                  IF n = 0 THEN dongle
                  ELSE IF reply[n].id = "keys" THEN deliver_report(after[n - 1], reply[n], usb[n])
                  ELSE deliver_pointer(after[n - 1], reply[n], usb[n])]
  BY <1>5
<1>7. esb_hid_relay_deliver(reply, usb) = after[Len(reply)]
  BY DEF esb_hid_relay_deliver
<1> HIDE DEF after
<1> DEFINE T == {n \in 0..L : after[n] = f[n]}
<1>8. 0 \in T
  BY <1>0, <1>5, <1>6
<1>9. ASSUME NEW n \in 0..(L - 1), n \in T PROVE n + 1 \in T
  <2>1. n + 1 \in 0..L /\ n + 1 # 0 /\ (n + 1) - 1 = n /\ after[n] = f[n]
    BY <1>0, <1>9
  <2>2. after[n + 1] = f[n + 1]
    BY <1>5, <1>6, <2>1
  <2> QED BY <2>1, <2>2
<1>10. L \in T
  <2>1. 0..L \subseteq T
    <3> HIDE DEF T, L
    <3> QED BY <1>0, <1>8, <1>9, UpTo
  <2> HIDE DEF T, L
  <2> QED BY <1>0, <2>1
<1>11. f[0] = dongle /\ \A n \in 1..Len(reply) : f[n] = Delivered(f[n - 1], reply[n], usb[n])
  <2>1. \A n \in 1..L : n \in 0..L /\ n # 0
    BY <1>0
  <2>2. 0 \in 0..L
    BY <1>0
  <2> QED BY <1>4, <2>1, <2>2 DEF Delivered
<1> QED BY <1>7, <1>10, <1>11

-----------------------------------------------------------------------------
(* The versions that reports of a kind carry, and that none of one set is    *)
(* newer than one of another.                                                *)
Said(id, reports) == {reports[i].ver : i \in {j \in 1..Len(reports) : reports[j].id = id}}
Precede(A, B)     == \A a \in A, b \in B : a <= b
(* Reports of one kind stand in the order they were made in. *)
Sorted(id, reports) ==
    \A i, j \in 1..Len(reports) :
        i < j /\ reports[i].id = id /\ reports[j].id = id => reports[i].ver <= reports[j].ver

(* Keyboard states travel in order: the dongle's, the reply's, the queue's,  *)
(* the latest.                                                               *)
KeyOrder ==
    /\ Sorted("keys", reply_queue)
    /\ Precede(Said("keys", reply_queue), {key_ver})
    /\ Precede(Said("keys", ack_payload), Said("keys", reply_queue) \union {key_ver})
    /\ Precede({dongle.keys_ver},
               Said("keys", ack_payload) \union Said("keys", reply_queue) \union {key_ver})

(* A latched state that may still go out is as new as all that went out or   *)
(* was counted; between a put and its count only the last report is newer,   *)
(* and the one poll that fits there empties the queue first.                 *)
IdleVer == idle_reply.reply[1].ver
LatchOrder ==
    /\ idle_reply.replies_staged <= replies_staged
    /\ idle_reply.reply # NoReply => IdleVer <= key_ver
    /\ work = "count" /\ ~polled_in_gap => reply_queue # <<>>
    /\ fresh_idle_reply /\ ~(work = "count" /\ polled_in_gap) =>
           /\ Precede({dongle.keys_ver} \union Said("keys", ack_payload), {IdleVer})
           /\ \A i \in 1..Len(reply_queue) :
                  \/ reply_queue[i].id = "mouse" \/ reply_queue[i].ver <= IdleVer
                  \/ work = "count" /\ i = Len(reply_queue)

(* Totals only grow on their way from the sensor to the host. *)
MotionOrder ==
    /\ dongle.host + dongle.skipped = dongle.total /\ dongle.skipped >= 0
    /\ dongle.total <= written_body.total /\ written_body.total <= sum
    /\ \A i \in 1..Len(ack_payload) :
           ack_payload[i].id = "mouse" => ack_payload[i].total = written_body.total

(* Button states travel in order as long as no endpoint change resets them. *)
ButtonOrder ==
    endpoints = 0 =>
        /\ ~paused /\ work \in {"idle", "count"}
        /\ Sorted("mouse", reply_queue)
        /\ Precede(Said("mouse", reply_queue), {button_ver})
        /\ Precede({written_body.ver}, Said("mouse", reply_queue) \union {button_ver})
        /\ Precede(Said("mouse", ack_payload), {written_body.ver})
        /\ Precede({dongle.buttons_ver}, Said("mouse", ack_payload) \union {written_body.ver})
        /\ input.at = "put" => input.report.ver = button_ver

(* The inductive invariant. *)
RelayInv == RelayTypes /\ QueueAccounted /\ KeyOrder /\ LatchOrder /\ MotionOrder /\ ButtonOrder

(* What a version said by a sequence is, and where it stands. *)
LEMMA SaidAt ==
    ASSUME NEW reports \in Seq(Reports), NEW id
    PROVE  /\ \A i \in 1..Len(reports) : reports[i].id = id => reports[i].ver \in Said(id, reports)
           /\ \A v \in Said(id, reports) :
                  \E i \in 1..Len(reports) : reports[i].id = id /\ reports[i].ver = v
           /\ Said(id, reports) \subseteq Nat
<1>1. \A i \in 1..Len(reports) : reports[i].ver \in Nat
  <2>1. \A i \in 1..Len(reports) : reports[i] \in Reports
    OBVIOUS
  <2>2. \A r \in Reports : r.ver \in Nat
    BY DEF Reports
  <2> QED BY <2>1, <2>2
<1> QED BY <1>1 DEF Said

(* A payload takes the dongle to states of its reports, and its counts reach *)
(* the host once.                                                            *)
LEMMA DeliveryOrder ==
    ASSUME NEW reply \in Seq(Reports), NEW usb \in [1..Len(reply) -> BOOLEAN], dongle \in Dongles
    PROVE  LET e == esb_hid_relay_deliver(reply, usb)
           IN  /\ e \in Dongles
               /\ e.keys_ver \in {dongle.keys_ver} \union Said("keys", reply)
               /\ e.buttons_ver \in {dongle.buttons_ver} \union Said("mouse", reply)
               /\ \A w \in Nat :
                      /\ dongle.host + dongle.skipped = dongle.total /\ dongle.skipped >= 0
                      /\ dongle.total <= w
                      /\ \A i \in 1..Len(reply) : reply[i].id = "mouse" => reply[i].total = w
                      => /\ e.host + e.skipped = e.total /\ e.skipped >= 0
                         /\ e.total <= w /\ e.host >= dongle.host
<1>1. PICK f \in [0..Len(reply) -> Dongles] :
               /\ f[0] = dongle
               /\ \A n \in 1..Len(reply) : f[n] = Delivered(f[n - 1], reply[n], usb[n])
               /\ esb_hid_relay_deliver(reply, usb) = f[Len(reply)]
  BY DeliveryPath
<1> DEFINE L == Len(reply)
<1>2. L \in Nat
  OBVIOUS
<1>3. ASSUME NEW n \in 0..(L - 1)
      PROVE  /\ n + 1 \in 1..L /\ (n + 1) - 1 = n /\ f[n] \in Dongles
             /\ reply[n + 1] \in Reports /\ usb[n + 1] \in BOOLEAN
             /\ f[n + 1] = Delivered(f[n], reply[n + 1], usb[n + 1])
  <2>1. n + 1 \in 1..L /\ (n + 1) - 1 = n /\ n \in 0..L
    BY <1>2
  <2>2. f[n] \in Dongles /\ reply[n + 1] \in Reports /\ usb[n + 1] \in BOOLEAN
    BY <2>1
  <2>3. f[n + 1] = Delivered(f[(n + 1) - 1], reply[n + 1], usb[n + 1])
    BY <1>1, <2>1
  <2> QED BY <2>1, <2>2, <2>3, Zenon
<1> DEFINE K == {n \in 0..L : /\ f[n].keys_ver \in {dongle.keys_ver} \union Said("keys", reply)
                              /\ f[n].buttons_ver \in {dongle.buttons_ver}
                                                          \union Said("mouse", reply)}
<1>4. L \in K
  <2>1. 0 \in K
    BY <1>1, <1>2
  <2>2. ASSUME NEW n \in 0..(L - 1), n \in K PROVE n + 1 \in K
    <3>1. n + 1 \in 0..L
      BY <1>2
    <3>2. /\ \/ f[n + 1].keys_ver = f[n].keys_ver
             \/ reply[n + 1].id = "keys" /\ f[n + 1].keys_ver = reply[n + 1].ver
          /\ \/ f[n + 1].buttons_ver = f[n].buttons_ver
             \/ reply[n + 1].id = "mouse" /\ f[n + 1].buttons_ver = reply[n + 1].ver
      BY <1>3, DeliveredReport
    <3> QED BY <1>3, <2>2, <3>1, <3>2, SaidAt
  <2>3. 0..L \subseteq K
    <3> HIDE DEF K, L
    <3> QED BY <1>2, <2>1, <2>2, UpTo
  <2> HIDE DEF K, L
  <2> QED BY <1>2, <2>3
<1>5. ASSUME NEW w \in Nat,
             dongle.host + dongle.skipped = dongle.total, dongle.skipped >= 0,
             dongle.total <= w,
             \A i \in 1..Len(reply) : reply[i].id = "mouse" => reply[i].total = w
      PROVE  LET e == f[L]
             IN  /\ e.host + e.skipped = e.total /\ e.skipped >= 0
                 /\ e.total <= w /\ e.host >= dongle.host
  <2> DEFINE M == {n \in 0..L : /\ f[n].host + f[n].skipped = f[n].total /\ f[n].skipped >= 0
                                /\ f[n].total <= w /\ f[n].host >= dongle.host}
  <2>1. 0 \in M
    <3>1. dongle.host \in Int /\ dongle.host >= dongle.host
      BY DEF Dongles
    <3> QED BY <1>1, <1>2, <1>5, <3>1
  <2>2. ASSUME NEW n \in 0..(L - 1), n \in M PROVE n + 1 \in M
    <3> DEFINE d == f[n]
               e == f[n + 1]
               t == reply[n + 1].total
    <3>1. /\ e \in Dongles
          /\ \/ e.total = d.total /\ e.host = d.host /\ e.skipped = d.skipped
             \/ /\ reply[n + 1].id = "mouse" /\ e.total = t
                /\ \/ e.host = d.host + (t - d.total) /\ e.skipped = d.skipped
                   \/ e.host = d.host /\ e.skipped = d.skipped + (t - d.total)
      <4>1. f[n + 1] = Delivered(f[n], reply[n + 1], usb[n + 1]) /\ f[n] \in Dongles
            /\ reply[n + 1] \in Reports /\ usb[n + 1] \in BOOLEAN
        BY <1>3
      <4> QED BY <4>1, DeliveredReport
    <3>2. reply[n + 1].id = "mouse" => t = w
      BY <1>3, <1>5
    <3>3. /\ d.total \in Nat /\ d.host \in Int /\ d.skipped \in Int /\ dongle.host \in Int
      BY <1>3 DEF Dongles
    <3>4. d.host + d.skipped = d.total /\ d.skipped >= 0 /\ d.total <= w /\ d.host >= dongle.host
      BY <2>2
    <3>5. n + 1 \in 0..L
      BY <1>2
    <3> HIDE DEF d, e, t
    <3>6. e.host + e.skipped = e.total /\ e.skipped >= 0 /\ e.total <= w /\ e.host >= dongle.host
      <4>1. CASE e.total = d.total /\ e.host = d.host /\ e.skipped = d.skipped
        BY <3>3, <3>4, <4>1
      <4>2. CASE e.total = w /\ e.host = d.host + (w - d.total) /\ e.skipped = d.skipped
        <5>1. \A h, s, u, g \in Int : h + s = u /\ s >= 0 /\ u <= w /\ h >= g =>
                  (h + (w - u)) + s = w /\ w <= w /\ h + (w - u) >= g
          BY <1>5
        <5>2. d.total \in Int
          BY <3>3
        <5>3. (d.host + (w - d.total)) + d.skipped = w /\ w <= w /\ d.host + (w - d.total) >= dongle.host
          BY <3>3, <3>4, <5>1, <5>2, Zenon
        <5> QED BY <3>4, <4>2, <5>3, Zenon
      <4>3. CASE e.total = w /\ e.host = d.host /\ e.skipped = d.skipped + (w - d.total)
        <5>1. \A h, s, u \in Int : h + s = u /\ s >= 0 /\ u <= w =>
                  h + (s + (w - u)) = w /\ s + (w - u) >= 0 /\ w <= w
          OBVIOUS
        <5>2. d.host + (d.skipped + (w - d.total)) = w /\ d.skipped + (w - d.total) >= 0 /\ w <= w
          BY <3>3, <3>4, <5>1
        <5> QED BY <3>4, <4>3, <5>2, Zenon
      <4> QED BY <3>1, <3>2, <4>1, <4>2, <4>3
    <3> QED BY <3>5, <3>6 DEF e
  <2>3. 0..L \subseteq M
    <3> HIDE DEF M, L
    <3> QED BY <1>2, <2>1, <2>2, UpTo
  <2>4. L \in M
    <3> HIDE DEF M, L
    <3> QED BY <1>2, <2>3
  <2> QED BY <2>4
<1>6. f[L] \in Dongles
  BY <1>1, <1>2
<1>7. esb_hid_relay_deliver(reply, usb) = f[L]
  BY <1>1
<1>8. /\ f[L].keys_ver \in {dongle.keys_ver} \union Said("keys", reply)
      /\ f[L].buttons_ver \in {dongle.buttons_ver} \union Said("mouse", reply)
  BY <1>4
<1> HIDE DEF L, K
<1> QED BY <1>5, <1>6, <1>7, <1>8

(* The ACK of a poll brings the last reply to the dongle, or nothing. *)
LEMMA PollDelivers ==
    ASSUME RelayTypes, NEW usb \in UsbAnswers, Poll(usb)
    PROVE  /\ dongle' \in Dongles
           /\ dongle'.keys_ver \in {dongle.keys_ver} \union Said("keys", ack_payload)
           /\ dongle'.buttons_ver \in {dongle.buttons_ver} \union Said("mouse", ack_payload)
           /\ MotionOrder => /\ dongle'.host + dongle'.skipped = dongle'.total
                             /\ dongle'.skipped >= 0 /\ dongle'.total <= written_body.total
                             /\ dongle'.host >= dongle.host
<1>1. dongle \in Dongles /\ ack_payload \in Seq(Reports) /\ written_body.total \in Nat
  BY DEF RelayTypes, Reports
<1>2. CASE usb = NotHeard
  <2>1. dongle' = dongle
    BY <1>2 DEF Poll
  <2>2. dongle.host \in Int
    BY <1>1 DEF Dongles
  <2>3. dongle.host >= dongle.host
    BY <2>2
  <2> QED BY <1>1, <2>1, <2>3 DEF MotionOrder
<1>3. CASE usb # NotHeard
  <2>1. usb \in [1..Len(ack_payload) -> BOOLEAN]
    BY <1>3 DEF UsbAnswers
  <2>2. dongle' = esb_hid_relay_deliver(ack_payload, usb)
    BY <1>3 DEF Poll
  <2> QED BY <1>1, <2>1, <2>2, DeliveryOrder DEF MotionOrder
<1> QED BY <1>2, <1>3

(* Where the key reports of a reply come from. *)
LEMMA PackedKeys ==
    ASSUME RelayTypes, NEW reply, NEW taken \in 0..Len(reply_queue), Packed(reply, taken),
           NEW i \in 1..Len(reply), reply[i].id = "keys"
    PROVE  \/ /\ i \in 1..Len(reply_queue) /\ i <= taken
              /\ reply_queue[i].id = "keys" /\ reply[i].ver = reply_queue[i].ver
           \/ /\ fresh_idle_reply /\ reply_queue = <<>> /\ reply[i].ver = IdleVer
<1>0. reply_queue \in Seq(Reports) /\ Len(reply_queue) \in Nat
  BY DEF RelayTypes
<1>1. CASE QueuedAt(reply, i, taken)
  <2>1. i <= taken /\ reply[i] = esb_hid_relay_pointer_stamp(reply_queue[i])
    BY <1>1 DEF QueuedAt
  <2>2. Len(reply) \in Nat
    BY DEF Packed
  <2>3. i \in 1..Len(reply_queue)
    BY <1>0, <2>1, <2>2
  <2>4. reply_queue[i] \in Reports
    BY <1>0, <2>3
  <2>5. reply_queue[i].id = "keys"
    BY <2>1, <2>4, StampTypes
  <2>6. reply[i] = reply_queue[i]
    BY <2>1, <2>4, <2>5, StampTypes
  <2> QED BY <2>1, <2>3, <2>5, <2>6
<1>2. CASE LatchedAt(reply, i, taken)
  BY <1>2 DEF LatchedAt, IdleVer
<1>3. CASE RidesAt(reply, i, taken)
  <2>1. (Len(reply_queue) > taken) \in BOOLEAN
    OBVIOUS
  <2>2. report_buttons(Len(reply_queue) > taken).id = "mouse"
    BY <2>1, StampTypes
  <2> QED BY <1>3, <2>2 DEF RidesAt
<1> QED BY <1>1, <1>2, <1>3 DEF Packed

(* ... and the mouse reports: all carry the totals of the poll. *)
LEMMA PackedMice ==
    ASSUME RelayTypes, NEW reply, NEW taken \in 0..Len(reply_queue), Packed(reply, taken),
           NEW i \in 1..Len(reply), reply[i].id = "mouse"
    PROVE  /\ reply[i].total = stamp_totals
           /\ ~paused => \/ /\ i \in 1..Len(reply_queue) /\ i <= taken
                            /\ reply_queue[i].id = "mouse" /\ reply[i].ver = reply_queue[i].ver
                         \/ /\ Len(reply_queue) > taken /\ reply[i].ver = written_body.ver
                            /\ i = Len(reply) /\ \A j \in 1..Len(reply) : j < i => reply[j].id = "keys"
                         \/ /\ ~(Len(reply_queue) > taken) /\ reply[i].ver = button_ver
                            /\ i = Len(reply) /\ \A j \in 1..Len(reply) : j < i => reply[j].id = "keys"
<1>0. reply_queue \in Seq(Reports) /\ Len(reply_queue) \in Nat
  BY DEF RelayTypes
<1>1. CASE QueuedAt(reply, i, taken)
  <2>1. i <= taken /\ reply[i] = esb_hid_relay_pointer_stamp(reply_queue[i])
    BY <1>1 DEF QueuedAt
  <2>2. Len(reply) \in Nat
    BY DEF Packed
  <2>3. i \in 1..Len(reply_queue)
    BY <1>0, <2>1, <2>2
  <2>4. reply_queue[i] \in Reports
    BY <1>0, <2>3
  <2>5. reply_queue[i].id = "mouse"
    BY <2>1, <2>4, StampTypes
  <2>6. /\ reply[i].total = stamp_totals
        /\ ~paused => reply[i].ver = reply_queue[i].ver
    BY <2>1, <2>5 DEF esb_hid_relay_pointer_stamp, MouseReport
  <2> QED BY <2>1, <2>3, <2>5, <2>6
<1>2. CASE LatchedAt(reply, i, taken)
  <2>1. PICK down \in BOOLEAN, v \in Nat : idle_reply.reply = <<KeyReport(down, v)>>
    BY <1>2 DEF LatchedAt, fresh_idle_reply, RelayTypes
  <2>2. reply[i] = KeyReport(down, v)
    BY <1>2, <2>1 DEF LatchedAt
  <2> QED BY <2>2 DEF KeyReport
<1>3. CASE RidesAt(reply, i, taken)
  <2>1. CASE Len(reply_queue) > taken
    BY <1>3, <2>1 DEF RidesAt, report_buttons, MouseReport
  <2>2. CASE ~(Len(reply_queue) > taken)
    BY <1>3, <2>2 DEF RidesAt, report_buttons, MouseReport
  <2> QED BY <2>1, <2>2
<1> QED BY <1>1, <1>2, <1>3 DEF Packed

(* A poll keeps types and the account of the queue. *)
LEMMA PollAccounts ==
    ASSUME RelayTypes, QueueAccounted, NEW usb \in UsbAnswers, Poll(usb)
    PROVE  RelayTypes' /\ QueueAccounted'
<1>1. PICK taken \in 0..Len(reply_queue) :
          Consumes(taken) /\ Packed(ack_payload', taken) /\ Commits(ack_payload')
  BY PollWrites
<1>2. idle_reply' \in {idle_reply, NoIdle} /\ dongle' \in Dongles
  BY PollWrites, PollDelivers
<1>3. /\ UNCHANGED <<zmk_vars, end_vars, point_vars, replies_staged, work, input>>
      /\ polled_in_gap' \in BOOLEAN
  BY DEF Poll
<1>4. /\ ack_payload' \in Seq(Reports) /\ reply_queue' \in Seq(Reports)
      /\ Len(reply_queue') = Len(reply_queue) - taken
      /\ replies_written' = replies_written + taken
  BY <1>1 DEF Packed, Consumes
<1>5. Len(reply_queue) \in Nat /\ replies_written \in Nat /\ replies_staged \in Nat
  BY DEF RelayTypes
<1>6. written_body' \in Reports /\ written_body'.id = "mouse" /\ refresh_due' \in BOOLEAN
  <2>1. CASE written_body' = written_body /\ refresh_due' = refresh_due
    BY <2>1 DEF RelayTypes
  <2>2. ASSUME NEW m \in 1..Len(ack_payload'), written_body' = ack_payload'[m],
               ack_payload'[m].id = "mouse", refresh_due' = FALSE
        PROVE  written_body' \in Reports /\ written_body'.id = "mouse" /\ refresh_due' \in BOOLEAN
    <3>1. ack_payload'[m] \in Reports
      BY <1>4
    <3> QED BY <2>2, <3>1
  <2> QED BY <1>1, <2>1, <2>2 DEF Commits
<1>7. /\ idle_reply'.replies_staged \in Nat
      /\ idle_reply'.reply # NoReply => \E down \in BOOLEAN, v \in Nat :
                                            idle_reply'.reply = <<KeyReport(down, v)>>
  <2>1. CASE idle_reply' = idle_reply
    BY <2>1 DEF RelayTypes
  <2>2. CASE idle_reply' = NoIdle
    BY <2>2 DEF NoIdle
  <2> QED BY <1>2, <2>1, <2>2
<1>8. replies_written' \in Nat
  BY <1>4, <1>5
<1>9. RelayTypes'
  BY <1>2, <1>3, <1>4, <1>6, <1>7, <1>8 DEF RelayTypes, zmk_vars, end_vars, point_vars
<1>10. QueueAccounted'
  <2>1. Len(reply_queue') + replies_written' = Len(reply_queue) + replies_written
    BY <1>4, <1>5
  <2> QED BY <1>3, <2>1 DEF QueueAccounted
<1> QED BY <1>9, <1>10

(* A poll keeps the order of keyboard states. *)
LEMMA PollKeepsKeys ==
    ASSUME RelayTypes, KeyOrder, LatchOrder, NEW usb \in UsbAnswers, Poll(usb)
    PROVE  KeyOrder' /\ LatchOrder' /\ dongle'.keys_ver >= dongle.keys_ver
<1>1. PICK taken \in 0..Len(reply_queue) :
          Consumes(taken) /\ Packed(ack_payload', taken) /\ Commits(ack_payload')
  BY PollWrites
<1>2. /\ idle_reply' \in {idle_reply, NoIdle} /\ dongle' \in Dongles
      /\ dongle'.keys_ver \in {dongle.keys_ver} \union Said("keys", ack_payload)
  BY PollWrites, PollDelivers
<1>3. /\ key_ver' = key_ver /\ replies_staged' = replies_staged /\ work' = work
      /\ (polled_in_gap' <=> work = "count") /\ (work = "count" => ~polled_in_gap)
  BY DEF Poll, zmk_vars
<1>4. /\ ack_payload' \in Seq(Reports) /\ reply_queue' \in Seq(Reports)
      /\ reply_queue \in Seq(Reports) /\ ack_payload \in Seq(Reports)
      /\ Len(reply_queue) \in Nat /\ key_ver \in Nat /\ replies_staged \in Nat
      /\ dongle.keys_ver \in Nat /\ dongle'.keys_ver \in Nat
  BY <1>1, <1>2 DEF Packed, Consumes, RelayTypes, Dongles
<1>5. /\ Len(reply_queue') = Len(reply_queue) - taken
      /\ \A i \in 1..Len(reply_queue') : /\ i + taken \in 1..Len(reply_queue)
                                         /\ reply_queue'[i] = reply_queue[i + taken]
  BY <1>1 DEF Consumes
<1> DEFINE Q  == Said("keys", reply_queue)
           P  == Said("keys", ack_payload)
<1>6. Q \subseteq Nat /\ P \subseteq Nat
  BY <1>4, SaidAt
<1>7. \A v \in Said("keys", reply_queue') :
          v \in Q /\ v \in Nat
          /\ \E i \in 1..Len(reply_queue') : reply_queue'[i].id = "keys" /\ reply_queue'[i].ver = v
  <2> TAKE v \in Said("keys", reply_queue')
  <2>1. PICK i \in 1..Len(reply_queue') : reply_queue'[i].id = "keys" /\ reply_queue'[i].ver = v
    BY <1>4, SaidAt
  <2>2. i + taken \in 1..Len(reply_queue) /\ reply_queue'[i] = reply_queue[i + taken]
    BY <1>5
  <2>3. v \in Q
    BY <1>4, <2>1, <2>2, SaidAt
  <2> QED BY <1>6, <2>1, <2>3
<1>8. ASSUME NEW v \in Said("keys", ack_payload')
      PROVE  /\ v \in Q \/ (fresh_idle_reply /\ reply_queue = <<>> /\ v = IdleVer)
             /\ \A u \in Said("keys", reply_queue') : v <= u
             /\ v \in Nat
  <2>1. PICK i \in 1..Len(ack_payload') : ack_payload'[i].id = "keys" /\ ack_payload'[i].ver = v
    BY <1>4, SaidAt
  <2>0. v \in Nat
    BY <1>4, SaidAt
  <2>2. CASE /\ i \in 1..Len(reply_queue) /\ i <= taken
             /\ reply_queue[i].id = "keys" /\ ack_payload'[i].ver = reply_queue[i].ver
    <3>1. v \in Q
      BY <1>4, <2>1, <2>2, SaidAt
    <3>2. ASSUME NEW u \in Said("keys", reply_queue') PROVE v <= u
      <4>1. PICK j \in 1..Len(reply_queue') : reply_queue'[j].id = "keys" /\ reply_queue'[j].ver = u
        BY <1>7
      <4>2. j + taken \in 1..Len(reply_queue) /\ reply_queue'[j] = reply_queue[j + taken]
        BY <1>5
      <4>3. i < j + taken
        BY <1>4, <1>5, <2>2
      <4> QED BY <2>1, <2>2, <4>1, <4>2, <4>3 DEF KeyOrder, Sorted
    <3> QED BY <2>0, <3>1, <3>2
  <2>3. CASE fresh_idle_reply /\ reply_queue = <<>> /\ ack_payload'[i].ver = IdleVer
    <3>1. Q = {}
      BY <2>3 DEF Said
    <3> QED BY <1>7, <2>0, <2>1, <2>3, <3>1
  <2> QED BY <1>1, <2>1, <2>2, <2>3, PackedKeys
<1>9. work = "count" => reply_queue # <<>>
  BY <1>3 DEF LatchOrder
<1>10. ASSUME fresh_idle_reply, work # "count"
       PROVE  /\ IdleVer \in Nat /\ dongle.keys_ver <= IdleVer
              /\ \A v \in P : v <= IdleVer
              /\ \A v \in Q : v <= IdleVer
  <2>0. IdleVer \in Nat
    <3>1. PICK down \in BOOLEAN, v \in Nat : idle_reply.reply = <<KeyReport(down, v)>>
      BY <1>10 DEF fresh_idle_reply, RelayTypes
    <3> QED BY <3>1 DEF IdleVer, KeyReport
  <2>1. /\ Precede({dongle.keys_ver} \union P, {IdleVer})
        /\ \A i \in 1..Len(reply_queue) :
               reply_queue[i].id = "mouse" \/ reply_queue[i].ver <= IdleVer
    BY <1>10 DEF LatchOrder
  <2>2. \A v \in Q : v <= IdleVer
    BY <1>4, <2>1, SaidAt
  <2> QED BY <2>0, <2>1, <2>2 DEF Precede
<1>11. dongle.keys_ver <= key_ver /\ \A v \in P : dongle.keys_ver <= v /\ v <= key_ver
  BY DEF KeyOrder, Precede
<1>12. dongle'.keys_ver >= dongle.keys_ver /\ dongle'.keys_ver <= key_ver
  BY <1>2, <1>4, <1>6, <1>11
<1>13. \A v \in Q : dongle'.keys_ver <= v /\ v <= key_ver
  BY <1>2 DEF KeyOrder, Precede
<1>14. fresh_idle_reply /\ work # "count" => dongle'.keys_ver <= IdleVer
  BY <1>2, <1>10
<1>15. idle_reply.reply # NoReply => IdleVer <= key_ver
  BY DEF LatchOrder
<1> HIDE DEF Q, P
<1>16. KeyOrder'
  <2>1. Sorted("keys", reply_queue')
    <3> SUFFICES ASSUME NEW i \in 1..Len(reply_queue'), NEW j \in 1..Len(reply_queue'), i < j,
                        reply_queue'[i].id = "keys", reply_queue'[j].id = "keys"
                 PROVE  reply_queue'[i].ver <= reply_queue'[j].ver
      BY DEF Sorted
    <3>1. i + taken < j + taken
      BY <1>4, <1>5
    <3>2. /\ i + taken \in 1..Len(reply_queue) /\ reply_queue'[i] = reply_queue[i + taken]
          /\ j + taken \in 1..Len(reply_queue) /\ reply_queue'[j] = reply_queue[j + taken]
      BY <1>5
    <3> QED BY <3>1, <3>2 DEF KeyOrder, Sorted
  <2>2. Precede(Said("keys", reply_queue'), {key_ver})
    BY <1>7, <1>13 DEF Precede
  <2>3. Precede(Said("keys", ack_payload'), Said("keys", reply_queue') \union {key_ver})
    BY <1>8, <1>13, <1>15 DEF Precede, fresh_idle_reply
  <2>4. Precede({dongle'.keys_ver},
                Said("keys", ack_payload') \union Said("keys", reply_queue') \union {key_ver})
    BY <1>7, <1>8, <1>9, <1>12, <1>13, <1>14 DEF Precede
  <2> QED BY <1>3, <2>1, <2>2, <2>3, <2>4 DEF KeyOrder
<1>17. LatchOrder'
  <2>1. CASE idle_reply' = NoIdle
    <3>1. idle_reply'.reply = NoReply /\ idle_reply'.replies_staged = 0
      BY <2>1 DEF NoIdle
    <3>2. ~fresh_idle_reply'
      BY <3>1 DEF fresh_idle_reply
    <3>3. 0 <= replies_staged'
      BY <1>3, <1>4
    <3> QED BY <1>3, <3>1, <3>2, <3>3 DEF LatchOrder
  <2>2. CASE idle_reply' = idle_reply
    <3>1. /\ idle_reply'.replies_staged <= replies_staged'
          /\ idle_reply'.reply # NoReply => IdleVer' <= key_ver'
          /\ work' = "count" => polled_in_gap'
          /\ (fresh_idle_reply' <=> fresh_idle_reply) /\ IdleVer' = IdleVer
      BY <1>3, <2>2 DEF LatchOrder, IdleVer, fresh_idle_reply
    <3>2. ASSUME fresh_idle_reply, work # "count"
          PROVE  /\ Precede({dongle'.keys_ver} \union Said("keys", ack_payload'), {IdleVer})
                 /\ \A i \in 1..Len(reply_queue') :
                        \/ reply_queue'[i].id = "mouse" \/ reply_queue'[i].ver <= IdleVer
      <4>1. IdleVer <= IdleVer
        BY <1>10, <3>2
      <4>2. \A i \in 1..Len(reply_queue') : reply_queue'[i].id \in {"keys", "mouse"}
        <5>1. \A i \in 1..Len(reply_queue') : reply_queue'[i] \in Reports
          BY <1>4
        <5>2. \A r \in Reports : r.id \in {"keys", "mouse"}
          BY DEF Reports
        <5> QED BY <5>1, <5>2
      <4>3. \A i \in 1..Len(reply_queue') :
                reply_queue'[i].id = "keys" => reply_queue'[i].ver \in Q
        BY <1>4, <1>7, SaidAt
      <4>4. \A i \in 1..Len(reply_queue') :
                \/ reply_queue'[i].id = "mouse" \/ reply_queue'[i].ver <= IdleVer
        BY <1>10, <3>2, <4>2, <4>3
      <4>5. \A v \in Said("keys", ack_payload') : v <= IdleVer
        BY <1>8, <1>10, <3>2, <4>1
      <4> QED BY <1>14, <3>2, <4>4, <4>5 DEF Precede
    <3> QED BY <1>3, <3>1, <3>2 DEF LatchOrder
  <2> QED BY <1>2, <2>1, <2>2
<1> QED BY <1>12, <1>16, <1>17

(* A poll stamps totals no smaller than the last ones it wrote. *)
LEMMA PollKeepsMotion ==
    ASSUME RelayTypes, MotionOrder, NEW usb \in UsbAnswers, Poll(usb)
    PROVE  /\ MotionOrder'
           /\ dongle'.host >= dongle.host /\ dongle'.host <= sum'
<1>1. PICK taken \in 0..Len(reply_queue) :
          Consumes(taken) /\ Packed(ack_payload', taken) /\ Commits(ack_payload')
  BY PollWrites
<1>2. /\ dongle' \in Dongles
      /\ dongle'.host + dongle'.skipped = dongle'.total /\ dongle'.skipped >= 0
      /\ dongle'.total <= written_body.total /\ dongle'.host >= dongle.host
  BY PollDelivers
<1>3. sum' = sum /\ sum \in Nat /\ written_body.total \in Nat
  BY DEF Poll, point_vars, RelayTypes, Reports
<1>4. /\ dongle'.total \in Nat /\ dongle'.host \in Int /\ dongle'.skipped \in Int
  BY <1>2 DEF Dongles
<1>5. /\ stamp_totals \in Nat /\ written_body.total <= stamp_totals /\ stamp_totals <= sum
  BY <1>3 DEF stamp_totals, MotionOrder
<1>6. \A i \in 1..Len(ack_payload') : ack_payload'[i].id = "mouse" => ack_payload'[i].total = stamp_totals
  BY <1>1, PackedMice
<1>7. /\ written_body'.total \in Nat
      /\ written_body.total <= written_body'.total /\ written_body'.total <= sum
      /\ \A i \in 1..Len(ack_payload') :
             ack_payload'[i].id = "mouse" => ack_payload'[i].total = written_body'.total
  <2>1. CASE /\ \A i \in 1..Len(ack_payload') : ack_payload'[i].id # "mouse"
             /\ written_body' = written_body
    <3>1. written_body.total <= written_body.total /\ written_body.total <= sum
      BY <1>3 DEF MotionOrder
    <3> QED BY <1>3, <2>1, <3>1
  <2>2. ASSUME NEW m \in 1..Len(ack_payload'), written_body' = ack_payload'[m],
               ack_payload'[m].id = "mouse"
        PROVE  written_body'.total = stamp_totals
    BY <1>6, <2>2
  <2>3. CASE written_body'.total = stamp_totals
    BY <1>5, <1>6, <2>3
  <2> QED BY <1>1, <2>1, <2>2, <2>3 DEF Commits
<1>8. dongle'.total <= written_body'.total
  BY <1>2, <1>3, <1>4, <1>7
<1>9. MotionOrder'
  BY <1>2, <1>3, <1>7, <1>8 DEF MotionOrder
<1>10. dongle'.host <= sum'
  BY <1>2, <1>3, <1>4, <1>7, <1>8
<1> QED BY <1>2, <1>9, <1>10

(* A poll keeps the order of button states. *)
LEMMA PollKeepsButtons ==
    ASSUME RelayTypes, ButtonOrder, NEW usb \in UsbAnswers, Poll(usb)
    PROVE  ButtonOrder' /\ (endpoints' = 0 => dongle'.buttons_ver >= dongle.buttons_ver)
<1> SUFFICES ASSUME endpoints' = 0
             PROVE  ButtonOrder' /\ dongle'.buttons_ver >= dongle.buttons_ver
  BY DEF ButtonOrder
<1>1. PICK taken \in 0..Len(reply_queue) :
          Consumes(taken) /\ Packed(ack_payload', taken) /\ Commits(ack_payload')
  BY PollWrites
<1>2. /\ dongle' \in Dongles
      /\ dongle'.buttons_ver \in {dongle.buttons_ver} \union Said("mouse", ack_payload)
  BY PollDelivers
<1>3. /\ endpoints' = endpoints /\ (paused' <=> paused) /\ work' = work /\ button_ver' = button_ver
      /\ input' = input
  BY DEF Poll, end_vars, point_vars
<1>4. /\ ack_payload' \in Seq(Reports) /\ reply_queue' \in Seq(Reports)
      /\ reply_queue \in Seq(Reports) /\ ack_payload \in Seq(Reports)
      /\ Len(reply_queue) \in Nat /\ button_ver \in Nat /\ written_body.ver \in Nat
      /\ dongle.buttons_ver \in Nat /\ dongle'.buttons_ver \in Nat
      /\ Len(ack_payload') \in Nat
  <2>1. ack_payload' \in Seq(Reports) /\ reply_queue' \in Seq(Reports)
    BY <1>1 DEF Packed, Consumes
  <2>2. /\ reply_queue \in Seq(Reports) /\ ack_payload \in Seq(Reports)
        /\ Len(reply_queue) \in Nat /\ button_ver \in Nat
    BY DEF RelayTypes
  <2>3. written_body.ver \in Nat
    BY DEF RelayTypes, Reports
  <2>4. dongle.buttons_ver \in Nat /\ dongle'.buttons_ver \in Nat
    BY <1>2 DEF RelayTypes, Dongles
  <2> QED BY <2>1, <2>2, <2>3, <2>4
<1>5. /\ Len(reply_queue') = Len(reply_queue) - taken
      /\ \A i \in 1..Len(reply_queue') : /\ i + taken \in 1..Len(reply_queue)
                                         /\ reply_queue'[i] = reply_queue[i + taken]
  BY <1>1 DEF Consumes
<1>6. /\ ~paused /\ work \in {"idle", "count"}
      /\ Sorted("mouse", reply_queue)
      /\ \A v \in Said("mouse", reply_queue) : written_body.ver <= v /\ v <= button_ver
      /\ written_body.ver <= button_ver
      /\ \A v \in Said("mouse", ack_payload) : dongle.buttons_ver <= v /\ v <= written_body.ver
      /\ dongle.buttons_ver <= written_body.ver
      /\ input.at = "put" => input.report.ver = button_ver
  BY <1>3 DEF ButtonOrder, Precede
<1>7. dongle'.buttons_ver >= dongle.buttons_ver /\ dongle'.buttons_ver <= written_body.ver
  <2>1. Said("mouse", ack_payload) \subseteq Nat
    BY <1>4, SaidAt
  <2> QED BY <1>2, <1>4, <1>6, <2>1
<1>8. Sorted("mouse", reply_queue')
  <2> SUFFICES ASSUME NEW i \in 1..Len(reply_queue'), NEW j \in 1..Len(reply_queue'), i < j,
                      reply_queue'[i].id = "mouse", reply_queue'[j].id = "mouse"
               PROVE  reply_queue'[i].ver <= reply_queue'[j].ver
    BY DEF Sorted
  <2>1. i + taken < j + taken
    BY <1>4, <1>5
  <2>2. /\ i + taken \in 1..Len(reply_queue) /\ reply_queue'[i] = reply_queue[i + taken]
        /\ j + taken \in 1..Len(reply_queue) /\ reply_queue'[j] = reply_queue[j + taken]
    BY <1>5
  <2> QED BY <1>6, <2>1, <2>2 DEF Sorted
<1>9. \A v \in Said("mouse", reply_queue') :
          /\ v \in Said("mouse", reply_queue) /\ v \in Nat
          /\ \E j \in 1..Len(reply_queue') : reply_queue'[j].id = "mouse" /\ reply_queue'[j].ver = v
  <2> TAKE v \in Said("mouse", reply_queue')
  <2>1. PICK i \in 1..Len(reply_queue') : reply_queue'[i].id = "mouse" /\ reply_queue'[i].ver = v
    BY <1>4, SaidAt
  <2>2. v \in Said("mouse", reply_queue)
    <3>1. i + taken \in 1..Len(reply_queue) /\ reply_queue'[i] = reply_queue[i + taken]
      BY <1>5
    <3> QED BY <1>4, <2>1, <3>1, SaidAt
  <2>3. v \in Nat
    BY <1>4, SaidAt
  <2> QED BY <2>1, <2>2, <2>3
<1>10. ASSUME NEW i \in 1..Len(ack_payload'), ack_payload'[i].id = "mouse"
       PROVE  /\ ack_payload'[i].ver \in Nat
              /\ written_body.ver <= ack_payload'[i].ver /\ ack_payload'[i].ver <= button_ver
              /\ \A u \in Said("mouse", reply_queue') : ack_payload'[i].ver <= u
              /\ \A j \in 1..Len(ack_payload') :
                     j < i /\ ack_payload'[j].id = "mouse" => ack_payload'[j].ver <= ack_payload'[i].ver
  <2>0. ack_payload'[i].ver \in Nat
    <3>1. ack_payload'[i] \in Reports
      BY <1>4
    <3> QED BY <3>1 DEF Reports
  <2>1. CASE /\ i \in 1..Len(reply_queue) /\ i <= taken
             /\ reply_queue[i].id = "mouse" /\ ack_payload'[i].ver = reply_queue[i].ver
    <3>1. ack_payload'[i].ver \in Said("mouse", reply_queue)
      BY <1>4, <2>1, SaidAt
    <3>2. ASSUME NEW u \in Said("mouse", reply_queue') PROVE ack_payload'[i].ver <= u
      <4>1. PICK j \in 1..Len(reply_queue') : reply_queue'[j].id = "mouse" /\ reply_queue'[j].ver = u
        BY <1>9
      <4>2. j + taken \in 1..Len(reply_queue) /\ reply_queue'[j] = reply_queue[j + taken]
        BY <1>5
      <4>3. i < j + taken
        BY <1>4, <1>5, <2>1
      <4> QED BY <1>6, <2>1, <4>1, <4>2, <4>3 DEF Sorted
    <3>3. ASSUME NEW j \in 1..Len(ack_payload'), j < i, ack_payload'[j].id = "mouse"
          PROVE  ack_payload'[j].ver <= ack_payload'[i].ver
      <4>1. j # Len(ack_payload')
        BY <1>4, <3>3
      <4>2. /\ j \in 1..Len(reply_queue) /\ reply_queue[j].id = "mouse"
            /\ ack_payload'[j].ver = reply_queue[j].ver
        BY <1>1, <1>6, <3>3, <4>1, PackedMice
      <4> QED BY <1>6, <2>1, <3>3, <4>2 DEF Sorted
    <3> QED BY <1>6, <2>0, <3>1, <3>2, <3>3
  <2>2. CASE /\ ack_payload'[i].ver = written_body.ver
             /\ \A j \in 1..Len(ack_payload') : j < i => ack_payload'[j].id = "keys"
    BY <1>4, <1>6, <1>9, <2>0, <2>2
  <2>3. CASE /\ ~(Len(reply_queue) > taken) /\ ack_payload'[i].ver = button_ver
             /\ \A j \in 1..Len(ack_payload') : j < i => ack_payload'[j].id = "keys"
    <3>1. Len(reply_queue') = 0
      BY <1>4, <1>5, <2>3
    <3>2. Said("mouse", reply_queue') = {}
      BY <1>4, <1>9, <3>1
    <3>3. button_ver <= button_ver
      BY <1>4
    <3> QED BY <1>6, <2>0, <2>3, <3>2, <3>3
  <2> QED BY <1>1, <1>6, <1>10, <2>1, <2>2, <2>3, PackedMice
<1>11. /\ written_body'.ver \in Nat
       /\ written_body.ver <= written_body'.ver /\ written_body'.ver <= button_ver
       /\ \A u \in Said("mouse", reply_queue') : written_body'.ver <= u
       /\ \A i \in 1..Len(ack_payload') :
              ack_payload'[i].id = "mouse" => ack_payload'[i].ver <= written_body'.ver
  <2>1. CASE /\ \A i \in 1..Len(ack_payload') : ack_payload'[i].id # "mouse"
             /\ written_body' = written_body
    <3>1. written_body.ver <= written_body.ver
      BY <1>4
    <3> QED BY <1>4, <1>6, <1>9, <2>1, <3>1
  <2>2. ASSUME NEW m \in 1..Len(ack_payload'), written_body' = ack_payload'[m],
               ack_payload'[m].id = "mouse",
               \A i \in 1..Len(ack_payload') : ack_payload'[i].id = "mouse" => i <= m
        PROVE  /\ written_body'.ver \in Nat
               /\ written_body.ver <= written_body'.ver /\ written_body'.ver <= button_ver
               /\ \A u \in Said("mouse", reply_queue') : written_body'.ver <= u
               /\ \A i \in 1..Len(ack_payload') :
                      ack_payload'[i].id = "mouse" => ack_payload'[i].ver <= written_body'.ver
    <3>1. ASSUME NEW i \in 1..Len(ack_payload'), ack_payload'[i].id = "mouse"
          PROVE  ack_payload'[i].ver <= written_body'.ver
      <4>1. i <= m
        BY <2>2, <3>1
      <4>2. CASE i = m
        BY <1>10, <2>2, <4>2
      <4>3. CASE i < m
        BY <1>10, <2>2, <3>1, <4>3
      <4> QED BY <1>4, <4>1, <4>2, <4>3
    <3> QED BY <1>10, <2>2, <3>1
  <2> QED BY <1>1, <2>1, <2>2 DEF Commits
<1>12. \A v \in Said("mouse", ack_payload') :
           v \in Nat /\ written_body.ver <= v /\ v <= written_body'.ver
  BY <1>4, <1>10, <1>11, SaidAt
<1>13. /\ dongle'.buttons_ver <= written_body'.ver
       /\ \A v \in Said("mouse", ack_payload') : dongle'.buttons_ver <= v
  BY <1>4, <1>7, <1>11, <1>12
<1>14. /\ Precede(Said("mouse", reply_queue'), {button_ver'})
       /\ Precede({written_body'.ver}, Said("mouse", reply_queue') \union {button_ver'})
       /\ Precede(Said("mouse", ack_payload'), {written_body'.ver})
       /\ Precede({dongle'.buttons_ver}, Said("mouse", ack_payload') \union {written_body'.ver})
  BY <1>3, <1>6, <1>9, <1>11, <1>12, <1>13 DEF Precede
<1> QED BY <1>3, <1>6, <1>7, <1>8, <1>14 DEF ButtonOrder

(* A report is put at the end of the queue, or dropped when the queue is full. *)
LEMMA StagedReport ==
    ASSUME reply_queue \in Seq(Reports), NEW r \in Reports, NEW queue,
           queue = Staged(reply_queue, r)
    PROVE  /\ queue \in Seq(Reports)
           /\ \/ queue = reply_queue
              \/ /\ queue # reply_queue /\ queue # <<>> /\ Len(queue) = Len(reply_queue) + 1
                 /\ \A i \in 1..Len(reply_queue) : queue[i] = reply_queue[i]
                 /\ queue[Len(queue)] = r
           /\ \A id : /\ \A v \in Said(id, queue) :
                             v \in Said(id, reply_queue) \/ (v = r.ver /\ r.id = id)
                      /\ Sorted(id, reply_queue) /\ (r.id = id => Precede(Said(id, reply_queue), {r.ver}))
                         => Sorted(id, queue)
<1>1. CASE queue = reply_queue
  BY <1>1
<1>2. CASE queue # reply_queue
  <2>1. queue = Append(reply_queue, r) /\ Len(reply_queue) \in Nat
    BY <1>2 DEF Staged
  <2>2. /\ queue \in Seq(Reports) /\ Len(queue) = Len(reply_queue) + 1
        /\ \A i \in 1..Len(reply_queue) : queue[i] = reply_queue[i]
        /\ queue[Len(reply_queue) + 1] = r
    BY <2>1
  <2>3. queue # <<>>
    BY <2>1, <2>2
  <2>4. \A i \in 1..Len(queue) : i \in 1..Len(reply_queue) \/ i = Len(reply_queue) + 1
    BY <2>1, <2>2
  <2>5. ASSUME NEW id
        PROVE  \A v \in Said(id, queue) : v \in Said(id, reply_queue) \/ (v = r.ver /\ r.id = id)
    <3> TAKE v \in Said(id, queue)
    <3>1. PICK i \in 1..Len(queue) : queue[i].id = id /\ queue[i].ver = v
      BY <2>2, SaidAt
    <3>2. CASE i \in 1..Len(reply_queue)
      BY <2>2, <3>1, <3>2, SaidAt
    <3>3. CASE i = Len(reply_queue) + 1
      BY <2>2, <3>1, <3>3
    <3> QED BY <2>4, <3>2, <3>3
  <2>6. ASSUME NEW id, Sorted(id, reply_queue),
               r.id = id => Precede(Said(id, reply_queue), {r.ver})
        PROVE  Sorted(id, queue)
    <3> SUFFICES ASSUME NEW i \in 1..Len(queue), NEW j \in 1..Len(queue), i < j,
                        queue[i].id = id, queue[j].id = id
                 PROVE  queue[i].ver <= queue[j].ver
      BY DEF Sorted
    <3>1. i \in 1..Len(reply_queue)
      BY <2>1, <2>2
    <3>2. CASE j \in 1..Len(reply_queue)
      BY <2>2, <2>6, <3>1, <3>2 DEF Sorted
    <3>3. CASE j = Len(reply_queue) + 1
      <4>1. queue[i].ver \in Said(id, reply_queue)
        BY <2>2, <3>1, SaidAt
      <4>2. r.id = id /\ queue[j] = r
        BY <2>2, <3>3
      <4> QED BY <2>6, <4>1, <4>2 DEF Precede
    <3> QED BY <2>4, <3>2, <3>3
  <2> QED BY <1>2, <2>2, <2>3, <2>5, <2>6
<1> QED BY <1>1, <1>2

(* One report more at the end. *)
Longer(queue, r, longer) ==
    /\ longer # queue /\ longer # <<>> /\ Len(longer) = Len(queue) + 1
    /\ \A i \in 1..Len(queue) : longer[i] = queue[i]
    /\ longer[Len(longer)] = r

(* A report is put at the end of the queue, or not at all. *)
LEMMA StagedShape ==
    ASSUME NEW queue \in Seq(Reports), NEW r \in Reports
    PROVE  /\ Staged(queue, r) \in Seq(Reports)
           /\ Staged(queue, r) = queue \/ Longer(queue, r, Staged(queue, r))
<1> DEFINE longer == Staged(queue, r)
<1>1. CASE longer = queue
  BY <1>1
<1>2. CASE longer # queue
  <2>1. longer = Append(queue, r) /\ Len(queue) \in Nat
    BY <1>2 DEF Staged
  <2>2. /\ longer \in Seq(Reports) /\ Len(longer) = Len(queue) + 1
        /\ \A i \in 1..Len(queue) : longer[i] = queue[i]
        /\ longer[Len(queue) + 1] = r
    BY <2>1
  <2>3. longer # <<>>
    BY <2>1, <2>2
  <2> HIDE DEF longer
  <2>4. Longer(queue, r, longer)
    BY <1>2, <2>2, <2>3 DEF Longer
  <2> QED BY <2>2, <2>4 DEF longer
<1> QED BY <1>1, <1>2

(* Keyboard order survives a newer keyboard state and a report of it. *)
LEMMA KeysGoOn ==
    ASSUME RelayTypes, KeyOrder, key_ver' \in Nat, key_ver <= key_ver',
           \/ reply_queue' = reply_queue
           \/ \E r \in Reports : /\ reply_queue' = Staged(reply_queue, r)
                                 /\ r.id = "keys" => r.ver = key_ver',
           ack_payload' = ack_payload, dongle'.keys_ver = dongle.keys_ver
    PROVE  KeyOrder'
<1>0. /\ reply_queue \in Seq(Reports) /\ ack_payload \in Seq(Reports)
      /\ key_ver \in Nat /\ dongle.keys_ver \in Nat
  BY DEF RelayTypes, Dongles
<1>1. /\ Said("keys", reply_queue) \subseteq Nat /\ Said("keys", ack_payload) \subseteq Nat
  BY <1>0, SaidAt
<1>2. /\ \A v \in Said("keys", reply_queue) : dongle.keys_ver <= v /\ v <= key_ver'
      /\ \A v \in Said("keys", ack_payload) :
             /\ dongle.keys_ver <= v /\ v <= key_ver'
             /\ \A u \in Said("keys", reply_queue) : v <= u
      /\ dongle.keys_ver <= key_ver'
  <2>1. /\ \A v \in Said("keys", reply_queue) : dongle.keys_ver <= v /\ v <= key_ver
        /\ \A v \in Said("keys", ack_payload) :
               /\ dongle.keys_ver <= v /\ v <= key_ver
               /\ \A u \in Said("keys", reply_queue) : v <= u
        /\ dongle.keys_ver <= key_ver
    BY DEF KeyOrder, Precede
  <2> QED BY <1>0, <1>1, <2>1
<1>3. /\ Said("keys", reply_queue') \subseteq Said("keys", reply_queue) \union {key_ver'}
      /\ Sorted("keys", reply_queue')
  <2>1. CASE reply_queue' = reply_queue
    BY <2>1 DEF KeyOrder
  <2>2. ASSUME NEW r \in Reports, reply_queue' = Staged(reply_queue, r),
               r.id = "keys" => r.ver = key_ver'
        PROVE  /\ Said("keys", reply_queue') \subseteq Said("keys", reply_queue) \union {key_ver'}
               /\ Sorted("keys", reply_queue')
    <3>1. Sorted("keys", reply_queue) /\ (r.id = "keys" => Precede(Said("keys", reply_queue), {r.ver}))
      BY <1>2, <2>2 DEF KeyOrder, Precede
    <3>2. \A v \in Said("keys", reply_queue') :
              v \in Said("keys", reply_queue) \/ (v = r.ver /\ r.id = "keys")
      BY <1>0, <2>2, StagedReport
    <3> QED BY <1>0, <2>2, <3>1, <3>2, StagedReport
  <2> QED BY <2>1, <2>2
<1>4. key_ver' <= key_ver'
  OBVIOUS
<1> QED BY <1>2, <1>3, <1>4 DEF KeyOrder, Precede

(* Button order survives a newer button state and a report of it. *)
LEMMA ButtonsGoOn ==
    ASSUME RelayTypes, ButtonOrder, button_ver' \in Nat, button_ver <= button_ver',
           endpoints' = endpoints, paused' <=> paused, work' \in {work, "idle", "count"},
           \/ reply_queue' = reply_queue
           \/ \E r \in Reports : /\ reply_queue' = Staged(reply_queue, r)
                                 /\ r.id = "mouse" /\ endpoints = 0 => r.ver = button_ver',
           ack_payload' = ack_payload, dongle'.buttons_ver = dongle.buttons_ver,
           written_body' = written_body,
           endpoints = 0 /\ input'.at = "put" => input'.report.ver = button_ver'
    PROVE  ButtonOrder'
<1> SUFFICES ASSUME endpoints = 0 PROVE ButtonOrder'
  BY DEF ButtonOrder
<1>0. /\ reply_queue \in Seq(Reports) /\ ack_payload \in Seq(Reports)
      /\ button_ver \in Nat /\ dongle.buttons_ver \in Nat /\ written_body.ver \in Nat
  BY DEF RelayTypes, Dongles, Reports
<1>1. Said("mouse", reply_queue) \subseteq Nat /\ Said("mouse", ack_payload) \subseteq Nat
  BY <1>0, SaidAt
<1>2. /\ \A v \in Said("mouse", reply_queue) : written_body.ver <= v /\ v <= button_ver'
      /\ written_body.ver <= button_ver'
      /\ \A v \in Said("mouse", ack_payload) : dongle.buttons_ver <= v /\ v <= written_body.ver
      /\ dongle.buttons_ver <= written_body.ver
      /\ Sorted("mouse", reply_queue) /\ ~paused /\ work \in {"idle", "count"}
  <2>1. /\ \A v \in Said("mouse", reply_queue) : written_body.ver <= v /\ v <= button_ver
        /\ written_body.ver <= button_ver
        /\ \A v \in Said("mouse", ack_payload) : dongle.buttons_ver <= v /\ v <= written_body.ver
        /\ dongle.buttons_ver <= written_body.ver
        /\ Sorted("mouse", reply_queue) /\ ~paused /\ work \in {"idle", "count"}
    BY DEF ButtonOrder, Precede
  <2> QED BY <1>0, <1>1, <2>1
<1>3. /\ Said("mouse", reply_queue') \subseteq Said("mouse", reply_queue) \union {button_ver'}
      /\ Sorted("mouse", reply_queue')
  <2>1. CASE reply_queue' = reply_queue
    BY <1>2, <2>1
  <2>2. ASSUME NEW r \in Reports, reply_queue' = Staged(reply_queue, r),
               r.id = "mouse" => r.ver = button_ver'
        PROVE  /\ Said("mouse", reply_queue') \subseteq Said("mouse", reply_queue) \union {button_ver'}
               /\ Sorted("mouse", reply_queue')
    <3>1. r.id = "mouse" => Precede(Said("mouse", reply_queue), {r.ver})
      BY <1>2, <2>2 DEF Precede
    <3>2. \A v \in Said("mouse", reply_queue') :
              v \in Said("mouse", reply_queue) \/ (v = r.ver /\ r.id = "mouse")
      BY <1>0, <2>2, StagedReport
    <3> QED BY <1>0, <1>2, <2>2, <3>1, <3>2, StagedReport
  <2> QED BY <2>1, <2>2
<1>4. button_ver' <= button_ver'
  OBVIOUS
<1>5. /\ Precede(Said("mouse", reply_queue'), {button_ver'})
      /\ Precede({written_body'.ver}, Said("mouse", reply_queue') \union {button_ver'})
      /\ Precede(Said("mouse", ack_payload'), {written_body'.ver})
      /\ Precede({dongle'.buttons_ver}, Said("mouse", ack_payload') \union {written_body'.ver})
  BY <1>2, <1>3, <1>4 DEF Precede
<1> QED BY <1>2, <1>3, <1>5 DEF ButtonOrder

(* The version of a latched state is a number. *)
LEMMA LatchedVersion == RelayTypes /\ idle_reply.reply # NoReply => IdleVer \in Nat
<1> SUFFICES ASSUME RelayTypes, idle_reply.reply # NoReply PROVE IdleVer \in Nat
  OBVIOUS
<1>1. PICK down \in BOOLEAN, v \in Nat : idle_reply.reply = <<KeyReport(down, v)>>
  BY DEF RelayTypes
<1> QED BY <1>1 DEF IdleVer, KeyReport

(* A new state is latched when nothing is between put and count. *)
LEMMA LatchKeepsOrder ==
    ASSUME RelayInv, work \in {"idle", "latch"}, latch_relay_reports, work' = "idle",
           UNCHANGED <<zmk_vars, end_vars, point_vars, isr_vars, reply_queue, replies_staged,
                       polled_in_gap, input>>
    PROVE  RelayInv'
<1>0. /\ reply_queue \in Seq(Reports) /\ ack_payload \in Seq(Reports)
      /\ key_ver \in Nat /\ key_down \in BOOLEAN /\ paused \in BOOLEAN /\ replies_staged \in Nat
  BY DEF RelayInv, RelayTypes
<1>1. /\ idle_reply'.reply = <<KeyReport(key_down /\ ~paused, key_ver)>>
      /\ idle_reply'.replies_staged = replies_staged /\ refresh_due' = TRUE
  BY DEF latch_relay_reports, esb_link_latch_idle_reply
<1>2. RelayTypes'
  <2>1. (key_down /\ ~paused) \in BOOLEAN
    OBVIOUS
  <2>2. \E down \in BOOLEAN, v \in Nat : idle_reply'.reply = <<KeyReport(down, v)>>
    BY <1>0, <1>1, <2>1
  <2> QED
    BY <1>0, <1>1, <2>2
       DEF RelayInv, RelayTypes, zmk_vars, end_vars, point_vars, isr_vars
<1>3. QueueAccounted'
  BY DEF RelayInv, QueueAccounted, isr_vars
<1>4. KeyOrder' /\ MotionOrder'
  BY DEF RelayInv, KeyOrder, MotionOrder, zmk_vars, point_vars, isr_vars
<1>5. ButtonOrder'
  BY DEF RelayInv, ButtonOrder, end_vars, point_vars, isr_vars
<1>6. LatchOrder'
  <2>1. IdleVer' = key_ver
    BY <1>1 DEF IdleVer, KeyReport
  <2>2. \A v \in {dongle.keys_ver} \union Said("keys", ack_payload) \union Said("keys", reply_queue) :
            v <= key_ver
    BY DEF RelayInv, KeyOrder, Precede
  <2>3. \A i \in 1..Len(reply_queue) : reply_queue[i].id = "mouse" \/ reply_queue[i].ver <= key_ver
    <3>1. \A i \in 1..Len(reply_queue) : reply_queue[i].id \in {"keys", "mouse"}
      <4>1. \A i \in 1..Len(reply_queue) : reply_queue[i] \in Reports
        BY <1>0
      <4>2. \A r \in Reports : r.id \in {"keys", "mouse"}
        BY DEF Reports
      <4> QED BY <4>1, <4>2
    <3>2. \A i \in 1..Len(reply_queue) :
              reply_queue[i].id = "keys" => reply_queue[i].ver \in Said("keys", reply_queue)
      BY <1>0, SaidAt
    <3> QED BY <2>2, <3>1, <3>2
  <2>4. key_ver <= key_ver /\ replies_staged <= replies_staged
    BY <1>0
  <2>5. /\ key_ver' = key_ver /\ replies_staged' = replies_staged /\ reply_queue' = reply_queue
        /\ dongle' = dongle /\ ack_payload' = ack_payload /\ work' # "count"
    BY DEF zmk_vars, isr_vars
  <2>6. Precede({dongle'.keys_ver} \union Said("keys", ack_payload'), {IdleVer'})
    BY <2>1, <2>2, <2>5 DEF Precede
  <2> QED BY <1>1, <2>1, <2>3, <2>4, <2>5, <2>6 DEF LatchOrder
<1> QED BY <1>2, <1>3, <1>4, <1>5, <1>6 DEF RelayInv

(* The initial states. *)
LEMMA RelayInit == Init => RelayInv
<1> SUFFICES ASSUME Init PROVE RelayInv
  OBVIOUS
<1>1. /\ written_body \in Reports /\ written_body.id = "mouse" /\ written_body.total = 0
      /\ written_body.ver = 0 /\ input.at = "idle"
  BY DEF Init, MouseReport, Reports, InputIdle
<1>2. input \in Inputs /\ input.report.id = "mouse"
  BY DEF Init, InputIdle, Inputs, MouseReport, Reports
<1>3. /\ dongle \in Dongles /\ dongle.keys_ver = 0 /\ dongle.buttons_ver = 0
      /\ dongle.host = 0 /\ dongle.skipped = 0 /\ dongle.total = 0
  BY DEF Init, Dongles
<1>4. /\ idle_reply.reply = NoReply /\ idle_reply.replies_staged = 0
      /\ reply_queue = <<>> /\ ack_payload = <<>>
      /\ reply_queue \in Seq(Reports) /\ ack_payload \in Seq(Reports)
  BY DEF Init, NoIdle, NoReply
<1>5. RelayTypes
  <2>1. /\ key_down \in BOOLEAN /\ key_ver \in Nat /\ keys \in Nat
        /\ zmk_button \in BOOLEAN /\ clicks \in Nat /\ paused \in BOOLEAN /\ endpoints \in Nat
        /\ sum \in Nat /\ buttons \in BOOLEAN /\ button_ver \in Nat /\ refresh_due \in BOOLEAN
        /\ replies_staged \in Nat /\ replies_written \in Nat
        /\ work \in {"idle", "count", "reset", "latch"} /\ polled_in_gap \in BOOLEAN
    BY DEF Init
  <2>2. idle_reply.replies_staged \in Nat
    BY <1>4
  <2> QED BY <1>1, <1>2, <1>3, <1>4, <2>1, <2>2 DEF RelayTypes
<1>6. QueueAccounted
  <2>1. Len(reply_queue) = 0
    BY <1>4
  <2> QED BY <1>1, <2>1 DEF Init, QueueAccounted
<1>7. \A id : Said(id, reply_queue) = {} /\ Said(id, ack_payload) = {} /\ Sorted(id, reply_queue)
  BY <1>4 DEF Said, Sorted
<1>8. KeyOrder
  BY <1>3, <1>7 DEF Init, KeyOrder, Precede
<1>9. LatchOrder
  <2>1. work # "count" /\ replies_staged = 0 /\ ~fresh_idle_reply
    BY <1>4 DEF Init, fresh_idle_reply
  <2> QED BY <1>4, <2>1 DEF LatchOrder
<1>10. MotionOrder
  <2>1. sum = 0 /\ 1..Len(ack_payload) = {}
    BY <1>4 DEF Init
  <2> QED BY <1>1, <1>3, <2>1 DEF MotionOrder
<1>11. ButtonOrder
  <2>1. paused = FALSE /\ work = "idle" /\ button_ver = 0
    BY DEF Init
  <2> QED BY <1>1, <1>3, <1>7, <2>1 DEF ButtonOrder, Precede
<1> QED BY <1>5, <1>6, <1>8, <1>9, <1>10, <1>11 DEF RelayInv

(* A step that touches neither keys, queue, latch nor dongle keeps what is   *)
(* said of them.                                                             *)
LEMMA KeysUntouched ==
    ASSUME KeyOrder, LatchOrder, UNCHANGED <<key_ver, ack_payload, dongle, queue_vars, polled_in_gap>>,
           (work' = "count") <=> (work = "count")
    PROVE  KeyOrder' /\ LatchOrder'
<1>1. UNCHANGED <<key_ver, ack_payload, dongle, reply_queue, replies_staged, idle_reply, polled_in_gap>>
  BY DEF queue_vars
<1>2. KeyOrder'
  BY <1>1 DEF KeyOrder
<1>3. (fresh_idle_reply' <=> fresh_idle_reply) /\ IdleVer' = IdleVer
  BY <1>1 DEF fresh_idle_reply, IdleVer
<1>4. LatchOrder'
  BY <1>1, <1>3 DEF LatchOrder
<1> QED BY <1>2, <1>4

(* A keycode handler stages one report, or none while paused. *)
LEMMA KeycodeStep ==
    ASSUME RelayInv, stage_keycode
    PROVE  RelayInv'
<1> DEFINE r == KeyReport(~key_down, key_ver + 1)
<1>0. /\ reply_queue \in Seq(Reports) /\ Len(reply_queue) \in Nat
      /\ key_ver \in Nat /\ key_down \in BOOLEAN /\ keys \in Nat /\ replies_staged \in Nat
      /\ button_ver \in Nat /\ replies_written \in Nat
  BY DEF RelayInv, RelayTypes
<1>1. /\ work = "idle" /\ keys' = keys + 1 /\ key_down' = ~key_down /\ key_ver' = key_ver + 1
      /\ reply_queue' = reply_queue \/ reply_queue' = Staged(reply_queue, r)
      /\ work' = IF reply_queue' = reply_queue THEN "idle" ELSE "count"
      /\ polled_in_gap' = FALSE
      /\ UNCHANGED <<zmk_button, clicks, end_vars, point_vars, refresh_due, isr_vars,
                     replies_staged, idle_reply, input>>
  BY DEF stage_keycode
<1>2. r \in Reports /\ r.id = "keys" /\ r.ver = key_ver + 1
  <2>1. key_ver + 1 \in Nat
    BY <1>0
  <2>2. (~key_down) \in BOOLEAN
    OBVIOUS
  <2>3. r \in Reports
    BY <2>1, <2>2, ReportTypes
  <2> QED BY <2>3 DEF KeyReport
<1> HIDE DEF r
<1>3. /\ reply_queue' \in Seq(Reports)
      /\ \/ reply_queue' = reply_queue
         \/ /\ reply_queue' # reply_queue /\ reply_queue' # <<>>
            /\ Len(reply_queue') = Len(reply_queue) + 1
            /\ \A i \in 1..Len(reply_queue) : reply_queue'[i] = reply_queue[i]
  <2>1. CASE reply_queue' = reply_queue
    BY <1>0, <2>1
  <2>2. CASE reply_queue' = Staged(reply_queue, r)
    <3>1. reply_queue' \in Seq(Reports)
          /\ (reply_queue' = reply_queue \/ Longer(reply_queue, r, reply_queue'))
      BY <1>0, <1>2, <2>2, StagedShape
    <3> QED BY <3>1 DEF Longer
  <2> QED BY <1>1, <2>1, <2>2
<1>4. RelayTypes'
  <2>1. key_ver' \in Nat /\ keys' \in Nat /\ key_down' \in BOOLEAN
    BY <1>0, <1>1
  <2> QED
    BY <1>1, <1>3, <2>1 DEF RelayInv, RelayTypes, end_vars, point_vars, isr_vars
<1>5. QueueAccounted'
  <2>1. /\ replies_written' = replies_written /\ replies_staged' = replies_staged /\ input' = input
        /\ work = "idle"
    BY <1>1 DEF isr_vars
  <2>2. CASE reply_queue' = reply_queue
    BY <1>1, <2>1, <2>2 DEF RelayInv, QueueAccounted
  <2>3. CASE reply_queue' # reply_queue
    <3>1. work' = "count" /\ Len(reply_queue') = Len(reply_queue) + 1
      BY <1>1, <1>3, <2>3
    <3>2. Len(reply_queue) + replies_written = replies_staged + (IF input.at = "count" THEN 1 ELSE 0)
      BY <1>0, <2>1 DEF RelayInv, QueueAccounted
    <3>3. (IF input.at = "count" THEN 1 ELSE 0) \in Nat
      OBVIOUS
    <3>4. Len(reply_queue') + replies_written
              = replies_staged + 1 + (IF input.at = "count" THEN 1 ELSE 0)
      BY <1>0, <3>1, <3>2, <3>3
    <3> QED BY <2>1, <3>1, <3>4 DEF QueueAccounted
  <2> QED BY <2>2, <2>3
<1>6. KeyOrder'
  <2>1. key_ver' \in Nat /\ key_ver <= key_ver'
    BY <1>0, <1>1
  <2>2. ack_payload' = ack_payload /\ dongle' = dongle
    BY <1>1 DEF isr_vars
  <2> QED BY <1>1, <1>2, <2>1, <2>2, KeysGoOn DEF RelayInv
<1>7. LatchOrder'
  <2>1. /\ dongle' = dongle /\ ack_payload' = ack_payload /\ replies_staged' = replies_staged
        /\ idle_reply' = idle_reply
    BY <1>1 DEF isr_vars
  <2>2. (fresh_idle_reply' <=> fresh_idle_reply) /\ IdleVer' = IdleVer
    BY <2>1 DEF fresh_idle_reply, IdleVer
  <2>3. idle_reply.reply # NoReply => IdleVer <= key_ver'
    <3>1. idle_reply.reply # NoReply => IdleVer \in Nat
      BY LatchedVersion DEF RelayInv
    <3>2. idle_reply.reply # NoReply => IdleVer <= key_ver
      BY DEF RelayInv, LatchOrder
    <3> QED BY <1>0, <1>1, <3>1, <3>2
  <2>4. work' = "count" => reply_queue' # <<>>
    BY <1>1, <1>3
  <2>5. ASSUME fresh_idle_reply
        PROVE  \A i \in 1..Len(reply_queue') :
                   \/ reply_queue'[i].id = "mouse" \/ reply_queue'[i].ver <= IdleVer
                   \/ work' = "count" /\ i = Len(reply_queue')
    <3>1. \A i \in 1..Len(reply_queue) : reply_queue[i].id = "mouse" \/ reply_queue[i].ver <= IdleVer
      BY <1>1, <2>5 DEF RelayInv, LatchOrder
    <3>2. CASE reply_queue' = reply_queue
      BY <3>1, <3>2
    <3>3. CASE reply_queue' # reply_queue
      <4>1. /\ Len(reply_queue') = Len(reply_queue) + 1 /\ work' = "count"
            /\ \A i \in 1..Len(reply_queue) : reply_queue'[i] = reply_queue[i]
        BY <1>1, <1>3, <3>3
      <4>2. \A i \in 1..Len(reply_queue') : i \in 1..Len(reply_queue) \/ i = Len(reply_queue')
        BY <1>0, <4>1
      <4> QED BY <3>1, <4>1, <4>2
    <3> QED BY <3>2, <3>3
  <2>6. fresh_idle_reply => Precede({dongle.keys_ver} \union Said("keys", ack_payload), {IdleVer})
    BY <1>1 DEF RelayInv, LatchOrder
  <2>7. idle_reply.replies_staged <= replies_staged
    BY DEF RelayInv, LatchOrder
  <2> QED BY <2>1, <2>2, <2>3, <2>4, <2>5, <2>6, <2>7 DEF LatchOrder
<1>8. MotionOrder'
  BY <1>1 DEF RelayInv, MotionOrder, isr_vars, point_vars
<1>9. ButtonOrder'
  <2>1. /\ button_ver' = button_ver /\ button_ver <= button_ver' /\ endpoints' = endpoints
        /\ (paused' <=> paused) /\ work' \in {work, "idle", "count"}
        /\ ack_payload' = ack_payload /\ dongle' = dongle /\ written_body' = written_body
        /\ input' = input
    BY <1>0, <1>1 DEF isr_vars, point_vars, end_vars
  <2>2. endpoints = 0 /\ input'.at = "put" => input'.report.ver = button_ver'
    BY <2>1 DEF RelayInv, ButtonOrder
  <2>3. r.id # "mouse"
    BY <1>2
  <2> QED BY <1>0, <1>1, <1>2, <2>1, <2>2, <2>3, ButtonsGoOn DEF RelayInv
<1> QED BY <1>4, <1>5, <1>6, <1>7, <1>8, <1>9 DEF RelayInv

(* A count that moves on outdates whatever is latched. *)
LEMMA CountOutdates ==
    ASSUME RelayTypes, LatchOrder, replies_staged' = replies_staged + 1,
           UNCHANGED <<key_ver, ack_payload, dongle, reply_queue, idle_reply>>, work' # "count"
    PROVE  LatchOrder'
<1>1. idle_reply.replies_staged <= replies_staged /\ idle_reply.replies_staged \in Nat
      /\ replies_staged \in Nat
  BY DEF LatchOrder, RelayTypes
<1>2. idle_reply.replies_staged <= replies_staged' /\ idle_reply.replies_staged # replies_staged'
  BY <1>1
<1>3. ~fresh_idle_reply' /\ IdleVer' = IdleVer
  BY <1>2 DEF fresh_idle_reply, IdleVer
<1> QED BY <1>2, <1>3 DEF LatchOrder

(* The keycode handler counts what it put. *)
LEMMA KeycodeCounted ==
    ASSUME RelayInv, CountKeycode
    PROVE  RelayInv'
<1>1. /\ work = "count" /\ work' = "idle" /\ polled_in_gap' = FALSE
      /\ replies_staged' = replies_staged + 1
      /\ UNCHANGED <<zmk_vars, end_vars, point_vars, refresh_due, isr_vars, reply_queue,
                     idle_reply, input>>
  BY DEF CountKeycode
<1>2. replies_staged \in Nat /\ replies_staged' \in Nat
  BY <1>1 DEF RelayInv, RelayTypes
<1>3. RelayTypes'
  BY <1>1, <1>2 DEF RelayInv, RelayTypes, zmk_vars, end_vars, point_vars, isr_vars
<1>4. QueueAccounted'
  <2>1. Len(reply_queue) + replies_written
            = replies_staged + 1 + (IF input.at = "count" THEN 1 ELSE 0)
    BY <1>1 DEF RelayInv, QueueAccounted
  <2>2. (IF input.at = "count" THEN 1 ELSE 0) \in Nat
    OBVIOUS
  <2>3. /\ reply_queue' = reply_queue /\ replies_written' = replies_written /\ input' = input
        /\ work' # "count"
    BY <1>1 DEF isr_vars
  <2>4. Len(reply_queue) + replies_written
            = replies_staged' + 0 + (IF input.at = "count" THEN 1 ELSE 0)
    BY <1>1, <1>2, <2>1, <2>2
  <2> QED BY <2>3, <2>4 DEF QueueAccounted
<1>5. KeyOrder' /\ MotionOrder'
  BY <1>1 DEF RelayInv, KeyOrder, MotionOrder, zmk_vars, point_vars, isr_vars
<1>6. LatchOrder'
  <2>1. UNCHANGED <<key_ver, ack_payload, dongle, reply_queue, idle_reply>> /\ work' # "count"
    BY <1>1 DEF zmk_vars, isr_vars
  <2> QED BY <1>1, <2>1, CountOutdates DEF RelayInv
<1>7. ButtonOrder'
  BY <1>1 DEF RelayInv, ButtonOrder, end_vars, point_vars, isr_vars
<1> QED BY <1>3, <1>4, <1>5, <1>6, <1>7 DEF RelayInv

(* An endpoint change: the workqueue pauses or resumes, then resets the      *)
(* buttons.  Keys and motion keep their order, buttons start over.           *)
LEMMA EndpointStep ==
    ASSUME RelayInv, work \in {"idle", "reset"}, work' \in {"reset", "latch"},
           endpoints' \in Nat \ {0}, paused' \in BOOLEAN, buttons' \in BOOLEAN,
           key_ver' \in Nat, key_ver <= key_ver', button_ver' \in Nat,
           UNCHANGED <<key_down, keys, zmk_button, clicks, sum, refresh_due, isr_vars, queue_vars,
                       polled_in_gap, input>>
    PROVE  RelayInv'
<1>1. /\ UNCHANGED <<key_down, keys, zmk_button, clicks, sum, refresh_due, polled_in_gap, input>>
      /\ UNCHANGED <<written_body, ack_payload, replies_written, dongle>>
      /\ UNCHANGED <<reply_queue, replies_staged, idle_reply>>
  BY DEF isr_vars, queue_vars
<1>2. RelayTypes'
  <2>1. work' \in {"idle", "count", "reset", "latch"} /\ endpoints' \in Nat
    OBVIOUS
  <2> QED BY <1>1, <2>1 DEF RelayInv, RelayTypes
<1>3. QueueAccounted'
  <2>1. work # "count" /\ work' # "count"
    OBVIOUS
  <2> QED BY <1>1, <2>1 DEF RelayInv, QueueAccounted
<1>4. KeyOrder'
  BY <1>1, KeysGoOn DEF RelayInv
<1>5. LatchOrder'
  <2>1. work # "count" /\ work' # "count"
    OBVIOUS
  <2>2. (fresh_idle_reply' <=> fresh_idle_reply) /\ IdleVer' = IdleVer
    BY <1>1 DEF fresh_idle_reply, IdleVer
  <2>3. idle_reply.reply # NoReply => IdleVer <= key_ver'
    <3>1. idle_reply.reply # NoReply => IdleVer \in Nat
      BY LatchedVersion DEF RelayInv
    <3>2. idle_reply.reply # NoReply => IdleVer <= key_ver
      BY DEF RelayInv, LatchOrder
    <3>3. key_ver \in Nat
      BY DEF RelayInv, RelayTypes
    <3> QED BY <3>1, <3>2, <3>3
  <2>4. idle_reply.replies_staged <= replies_staged
    BY DEF RelayInv, LatchOrder
  <2>5. fresh_idle_reply =>
            /\ Precede({dongle.keys_ver} \union Said("keys", ack_payload), {IdleVer})
            /\ \A i \in 1..Len(reply_queue) :
                   reply_queue[i].id = "mouse" \/ reply_queue[i].ver <= IdleVer
    BY <2>1 DEF RelayInv, LatchOrder
  <2> QED BY <1>1, <2>1, <2>2, <2>3, <2>4, <2>5 DEF LatchOrder
<1>6. MotionOrder'
  BY <1>1 DEF RelayInv, MotionOrder
<1>7. ButtonOrder'
  BY DEF ButtonOrder
<1> QED BY <1>2, <1>3, <1>4, <1>5, <1>6, <1>7 DEF RelayInv

(* A step of the input thread before it reaches the queue, or after. *)
LEMMA InputStep ==
    ASSUME RelayInv, zmk_button' \in BOOLEAN, clicks' \in Nat, sum' \in Nat, sum <= sum',
           buttons' \in BOOLEAN, button_ver' \in Nat, button_ver <= button_ver',
           input' \in Inputs, input'.report.id = "mouse",
           (input'.at = "count") <=> (input.at = "count"),
           endpoints = 0 /\ input'.at = "put" => input'.report.ver = button_ver',
           UNCHANGED <<key_down, keys, key_ver, end_vars, refresh_due, isr_vars, queue_vars, work,
                       polled_in_gap>>
    PROVE  RelayInv'
<1>1. /\ UNCHANGED <<key_down, keys, key_ver, paused, endpoints, refresh_due, work, polled_in_gap>>
      /\ UNCHANGED <<written_body, ack_payload, replies_written, dongle>>
      /\ UNCHANGED <<reply_queue, replies_staged, idle_reply>>
  BY DEF isr_vars, queue_vars, end_vars
<1>2. RelayTypes'
  BY <1>1 DEF RelayInv, RelayTypes
<1>3. QueueAccounted'
  BY <1>1 DEF RelayInv, QueueAccounted
<1>4. KeyOrder' /\ LatchOrder'
  BY <1>1, KeysUntouched DEF RelayInv
<1>5. MotionOrder'
  <2>1. written_body.total \in Nat /\ sum \in Nat /\ written_body.total <= sum
    BY DEF RelayInv, RelayTypes, Reports, MotionOrder
  <2>2. written_body.total <= sum'
    BY <2>1
  <2> QED BY <1>1, <2>2 DEF RelayInv, MotionOrder
<1>6. ButtonOrder'
  BY <1>1, ButtonsGoOn DEF RelayInv
<1> QED BY <1>2, <1>3, <1>4, <1>5, <1>6 DEF RelayInv

(* The input thread puts a button change. *)
LEMMA ButtonsPut ==
    ASSUME RelayInv, PutButtons
    PROVE  RelayInv'
<1> DEFINE r == input.report
<1>0. /\ reply_queue \in Seq(Reports) /\ Len(reply_queue) \in Nat /\ replies_staged \in Nat
      /\ key_ver \in Nat /\ button_ver \in Nat /\ replies_written \in Nat
      /\ r \in Reports /\ r.id = "mouse" /\ input \in Inputs
  BY DEF RelayInv, RelayTypes, Inputs
<1>1. /\ work = "idle" /\ input.at = "put" /\ reply_queue' = Staged(reply_queue, r)
      /\ input' = [input EXCEPT !.at = IF reply_queue' = reply_queue THEN "listener" ELSE "count"]
      /\ UNCHANGED <<zmk_vars, end_vars, point_vars, refresh_due, isr_vars, replies_staged,
                     idle_reply, work, polled_in_gap>>
  BY DEF PutButtons
<1>2. /\ input' \in Inputs /\ input'.report = r
      /\ input'.at = IF reply_queue' = reply_queue THEN "listener" ELSE "count"
  BY <1>0, <1>1 DEF Inputs
<1>3. UNCHANGED <<key_ver, button_ver, endpoints, paused, written_body, ack_payload, replies_written,
                  dongle, replies_staged, idle_reply, work, polled_in_gap>>
  BY <1>1 DEF zmk_vars, end_vars, point_vars, isr_vars
<1> HIDE DEF r
<1>4. /\ reply_queue' \in Seq(Reports)
      /\ \/ reply_queue' = reply_queue
         \/ /\ reply_queue' # reply_queue /\ Len(reply_queue') = Len(reply_queue) + 1
            /\ \A i \in 1..Len(reply_queue) : reply_queue'[i] = reply_queue[i]
            /\ reply_queue'[Len(reply_queue')] = r
  <2>1. reply_queue' \in Seq(Reports)
        /\ (reply_queue' = reply_queue \/ Longer(reply_queue, r, reply_queue'))
    BY <1>0, <1>1, StagedShape
  <2> QED BY <2>1 DEF Longer
<1>5. RelayTypes'
  BY <1>0, <1>1, <1>2, <1>4
     DEF RelayInv, RelayTypes, zmk_vars, end_vars, point_vars, isr_vars
<1>6. QueueAccounted'
  <2>1. Len(reply_queue) + replies_written = replies_staged + 0 + 0
    BY <1>1 DEF RelayInv, QueueAccounted
  <2>2. work' # "count"
    BY <1>1, <1>3
  <2>3. CASE reply_queue' = reply_queue
    <3>1. input'.at # "count"
      BY <1>2, <2>3
    <3> QED BY <1>3, <2>1, <2>2, <2>3, <3>1 DEF QueueAccounted
  <2>4. CASE reply_queue' # reply_queue
    <3>1. input'.at = "count" /\ Len(reply_queue') = Len(reply_queue) + 1
      BY <1>2, <1>4, <2>4
    <3>2. Len(reply_queue') + replies_written = replies_staged + 0 + 1
      BY <1>0, <2>1, <3>1
    <3> QED BY <1>3, <2>2, <3>1, <3>2 DEF QueueAccounted
  <2> QED BY <2>3, <2>4
<1>7. KeyOrder'
  <2>1. key_ver' \in Nat /\ key_ver <= key_ver'
    BY <1>0, <1>3
  <2>2. r.id # "keys"
    BY <1>0
  <2> QED BY <1>0, <1>1, <1>3, <2>1, <2>2, KeysGoOn DEF RelayInv
<1>8. LatchOrder'
  <2>1. (fresh_idle_reply' <=> fresh_idle_reply) /\ IdleVer' = IdleVer
    BY <1>3 DEF fresh_idle_reply, IdleVer
  <2>2. work # "count" /\ work' # "count"
    BY <1>1, <1>3
  <2>3. /\ idle_reply.replies_staged <= replies_staged
        /\ idle_reply.reply # NoReply => IdleVer <= key_ver
        /\ fresh_idle_reply =>
               /\ Precede({dongle.keys_ver} \union Said("keys", ack_payload), {IdleVer})
               /\ \A i \in 1..Len(reply_queue) :
                      reply_queue[i].id = "mouse" \/ reply_queue[i].ver <= IdleVer
    BY <2>2 DEF RelayInv, LatchOrder
  <2>4. ASSUME fresh_idle_reply
        PROVE  \A i \in 1..Len(reply_queue') :
                   reply_queue'[i].id = "mouse" \/ reply_queue'[i].ver <= IdleVer
    <3>1. CASE reply_queue' = reply_queue
      BY <2>3, <2>4, <3>1
    <3>2. CASE reply_queue' # reply_queue
      <4>1. /\ Len(reply_queue') = Len(reply_queue) + 1
            /\ \A i \in 1..Len(reply_queue) : reply_queue'[i] = reply_queue[i]
            /\ reply_queue'[Len(reply_queue')].id = "mouse"
        BY <1>0, <1>4, <3>2
      <4>2. \A i \in 1..Len(reply_queue') : i \in 1..Len(reply_queue) \/ i = Len(reply_queue')
        BY <1>0, <4>1
      <4> QED BY <2>3, <2>4, <4>1, <4>2
    <3> QED BY <3>1, <3>2
  <2> QED BY <1>3, <2>1, <2>2, <2>3, <2>4 DEF LatchOrder
<1>9. MotionOrder'
  BY <1>1 DEF RelayInv, MotionOrder, isr_vars, point_vars
<1>10. ButtonOrder'
  <2>1. button_ver' \in Nat /\ button_ver <= button_ver' /\ (paused' <=> paused)
        /\ work' \in {work, "idle", "count"}
    BY <1>0, <1>3
  <2>2. endpoints = 0 => r.ver = button_ver'
    BY <1>1, <1>3 DEF RelayInv, ButtonOrder, r
  <2>3. input'.at # "put"
    BY <1>2
  <2> QED BY <1>0, <1>1, <1>3, <2>1, <2>2, <2>3, ButtonsGoOn DEF RelayInv
<1> QED BY <1>5, <1>6, <1>7, <1>8, <1>9, <1>10 DEF RelayInv

(* The input thread counts what it put. *)
LEMMA ButtonsCounted ==
    ASSUME RelayInv, CountButtons
    PROVE  RelayInv'
<1>1. /\ work = "idle" /\ input.at = "count" /\ replies_staged' = replies_staged + 1
      /\ input' = [input EXCEPT !.at = "listener"]
      /\ UNCHANGED <<zmk_vars, end_vars, point_vars, refresh_due, isr_vars, reply_queue,
                     idle_reply, work, polled_in_gap>>
  BY DEF CountButtons
<1>2. /\ replies_staged \in Nat /\ replies_staged' \in Nat /\ Len(reply_queue) \in Nat
      /\ replies_written \in Nat /\ input' \in Inputs /\ input'.report = input.report
      /\ input'.at = "listener"
  <2>1. /\ replies_staged \in Nat /\ Len(reply_queue) \in Nat /\ replies_written \in Nat
        /\ input \in Inputs
    BY DEF RelayInv, RelayTypes
  <2>2. replies_staged' \in Nat
    BY <1>1, <2>1
  <2>3. input' \in Inputs /\ input'.report = input.report /\ input'.at = "listener"
    BY <1>1, <2>1 DEF Inputs
  <2> QED BY <2>1, <2>2, <2>3
<1>3. RelayTypes'
  BY <1>1, <1>2 DEF RelayInv, RelayTypes, zmk_vars, end_vars, point_vars, isr_vars
<1>4. QueueAccounted'
  <2>1. Len(reply_queue) + replies_written = replies_staged + 0 + 1
    BY <1>1 DEF RelayInv, QueueAccounted
  <2>2. /\ reply_queue' = reply_queue /\ replies_written' = replies_written
        /\ work' # "count" /\ input'.at # "count"
    BY <1>1, <1>2 DEF isr_vars
  <2>3. Len(reply_queue) + replies_written = replies_staged' + 0 + 0
    BY <1>1, <1>2, <2>1
  <2> QED BY <2>2, <2>3 DEF QueueAccounted
<1>5. KeyOrder' /\ MotionOrder'
  BY <1>1 DEF RelayInv, KeyOrder, MotionOrder, zmk_vars, point_vars, isr_vars
<1>6. LatchOrder'
  <2>1. UNCHANGED <<key_ver, ack_payload, dongle, reply_queue, idle_reply>> /\ work' # "count"
    BY <1>1 DEF zmk_vars, isr_vars
  <2> QED BY <1>1, <2>1, CountOutdates DEF RelayInv
<1>7. ButtonOrder'
  <2>1. input'.at # "put"
    BY <1>2
  <2> QED BY <1>1, <2>1 DEF RelayInv, ButtonOrder, end_vars, point_vars, isr_vars
<1> QED BY <1>3, <1>4, <1>5, <1>6, <1>7 DEF RelayInv

(* A silence of the mouse touches nothing the order is about. *)
LEMMA SilenceStep ==
    ASSUME RelayInv, Silence
    PROVE  RelayInv' /\ dongle'.keys_ver = dongle.keys_ver /\ dongle'.host = dongle.host
           /\ dongle'.buttons_ver = dongle.buttons_ver
<1>1. /\ dongle' = [dongle EXCEPT !.silent = TRUE] /\ dongle \in Dongles
      /\ UNCHANGED <<zmk_vars, end_vars, point_vars, refresh_due, written_body, ack_payload,
                     replies_written, queue_vars, work, polled_in_gap, input>>
  BY DEF Silence, RelayInv, RelayTypes
<1>2. /\ dongle' \in Dongles /\ dongle'.keys_ver = dongle.keys_ver
      /\ dongle'.buttons_ver = dongle.buttons_ver /\ dongle'.host = dongle.host
      /\ dongle'.skipped = dongle.skipped /\ dongle'.total = dongle.total
  BY <1>1 DEF Dongles
<1>3. RelayTypes' /\ QueueAccounted'
  BY <1>1, <1>2 DEF RelayInv, RelayTypes, QueueAccounted, zmk_vars, end_vars, point_vars, queue_vars
<1>4. KeyOrder'
  BY <1>1, <1>2 DEF RelayInv, KeyOrder, zmk_vars, queue_vars
<1>5. LatchOrder'
  <2>1. /\ UNCHANGED <<key_ver, ack_payload, reply_queue, replies_staged, idle_reply, work,
                       polled_in_gap>>
    BY <1>1 DEF zmk_vars, queue_vars
  <2>2. (fresh_idle_reply' <=> fresh_idle_reply) /\ IdleVer' = IdleVer
    BY <2>1 DEF fresh_idle_reply, IdleVer
  <2> QED BY <1>2, <2>1, <2>2 DEF RelayInv, LatchOrder
<1>6. MotionOrder'
  BY <1>1, <1>2 DEF RelayInv, MotionOrder, point_vars
<1>7. ButtonOrder'
  BY <1>1, <1>2 DEF RelayInv, ButtonOrder, end_vars, point_vars, queue_vars
<1> QED BY <1>2, <1>3, <1>4, <1>5, <1>6, <1>7 DEF RelayInv

(* The input thread's own steps, up to the put and after the count. *)
LEMMA InputSteps ==
    ASSUME RelayInv,
           \/ \E button \in BOOLEAN : CheckActive(button)
           \/ add_motion \/ add_button \/ stage_buttons \/ ZmkInputListener
    PROVE  RelayInv'
<1>0. /\ zmk_button \in BOOLEAN /\ clicks \in Nat /\ sum \in Nat /\ buttons \in BOOLEAN
      /\ button_ver \in Nat /\ input \in Inputs /\ input.report.id = "mouse" /\ paused \in BOOLEAN
  BY DEF RelayInv, RelayTypes
<1>1. sum <= sum /\ button_ver <= button_ver
  BY <1>0
<1>2. ASSUME NEW button \in BOOLEAN, CheckActive(button) PROVE RelayInv'
  <2>1. /\ input.at = "idle"
        /\ clicks' = IF button THEN clicks + 1 ELSE clicks
        /\ input' = [InputIdle EXCEPT !.at = IF paused THEN "listener" ELSE "add",
                                      !.button = button, !.press = clicks % 2 = 0]
        /\ UNCHANGED <<key_down, keys, key_ver, zmk_button, end_vars, point_vars, refresh_due,
                       isr_vars, queue_vars, work, polled_in_gap>>
    BY <1>2 DEF CheckActive
  <2>2. clicks' \in Nat
    BY <1>0, <2>1
  <2>3. (clicks % 2 = 0) \in BOOLEAN /\ MouseReport(FALSE, 0, 0) \in Reports
    BY ReportTypes
  <2>4. /\ input' \in Inputs /\ input'.at \in {"listener", "add"}
        /\ input'.report.id = "mouse"
    BY <2>1, <2>3 DEF InputIdle, Inputs, MouseReport
  <2>5. input'.at # "count" /\ input'.at # "put" /\ input.at # "count"
    BY <2>1, <2>4
  <2> QED BY <1>0, <1>1, <2>1, <2>2, <2>4, <2>5, InputStep DEF point_vars
<1>3. CASE add_motion
  <2>1. /\ input.at = "add" /\ sum' = sum + 1 /\ input' = [input EXCEPT !.at = "listener"]
        /\ UNCHANGED <<zmk_vars, end_vars, buttons, button_ver, refresh_due, isr_vars,
                       queue_vars, work, polled_in_gap>>
    BY <1>3 DEF add_motion
  <2>2. sum' \in Nat /\ sum <= sum'
    BY <1>0, <2>1
  <2>3. input' \in Inputs /\ input'.at = "listener" /\ input'.report = input.report
    BY <1>0, <2>1 DEF Inputs
  <2>4. input'.at # "count" /\ input'.at # "put" /\ input.at # "count"
    BY <2>1, <2>3
  <2> QED BY <1>0, <1>1, <2>1, <2>2, <2>3, <2>4, InputStep DEF zmk_vars
<1>4. CASE add_button
  <2>1. /\ input.at = "add" /\ buttons' = input.press
        /\ button_ver' = IF buttons = input.press THEN button_ver ELSE button_ver + 1
        /\ input' = [input EXCEPT !.at = IF buttons = input.press THEN "listener" ELSE "stage"]
        /\ UNCHANGED <<zmk_vars, end_vars, sum, refresh_due, isr_vars, queue_vars, work,
                       polled_in_gap>>
    BY <1>4 DEF add_button
  <2>2. button_ver' \in Nat /\ button_ver <= button_ver'
    BY <1>0, <2>1
  <2>3. /\ input' \in Inputs /\ input'.at \in {"listener", "stage"}
        /\ input'.report = input.report /\ buttons' \in BOOLEAN
    BY <1>0, <2>1 DEF Inputs
  <2>4. input'.at # "count" /\ input'.at # "put" /\ input.at # "count"
    BY <2>1, <2>3
  <2> QED BY <1>0, <1>1, <2>1, <2>2, <2>3, <2>4, InputStep DEF zmk_vars
<1>5. CASE stage_buttons
  <2>1. /\ input.at = "stage"
        /\ input' = [input EXCEPT !.at = "put", !.report = MouseReport(buttons, button_ver, 0)]
        /\ UNCHANGED <<zmk_vars, end_vars, point_vars, refresh_due, isr_vars, queue_vars,
                       work, polled_in_gap>>
    BY <1>5 DEF stage_buttons
  <2>2. MouseReport(buttons, button_ver, 0) \in Reports
    BY <1>0, ReportTypes
  <2>3. /\ input' \in Inputs /\ input'.at = "put"
        /\ input'.report = MouseReport(buttons, button_ver, 0)
    BY <1>0, <2>1, <2>2 DEF Inputs
  <2>4. input'.report.id = "mouse" /\ input'.report.ver = button_ver
    BY <2>3 DEF MouseReport
  <2>5. input'.at # "count" /\ input.at # "count"
    BY <2>1, <2>3
  <2> QED BY <1>0, <1>1, <2>1, <2>3, <2>4, <2>5, InputStep DEF zmk_vars, point_vars
<1>6. CASE ZmkInputListener
  <2>1. /\ input.at = "listener"
        /\ zmk_button' = IF input.button THEN input.press ELSE zmk_button
        /\ input' = InputIdle
        /\ UNCHANGED <<key_down, keys, key_ver, clicks, end_vars, point_vars, refresh_due, isr_vars,
                       queue_vars, work, polled_in_gap>>
    BY <1>6 DEF ZmkInputListener
  <2>2. zmk_button' \in BOOLEAN
    BY <1>0, <2>1 DEF Inputs
  <2>3. MouseReport(FALSE, 0, 0) \in Reports
    BY ReportTypes
  <2>4. input' \in Inputs /\ input'.at = "idle" /\ input'.report.id = "mouse"
    BY <2>1, <2>3 DEF InputIdle, Inputs, MouseReport
  <2>5. input'.at # "count" /\ input'.at # "put" /\ input.at # "count"
    BY <2>1, <2>4
  <2> QED BY <1>0, <1>1, <2>1, <2>2, <2>4, <2>5, InputStep DEF point_vars
<1> QED BY <1>2, <1>3, <1>4, <1>5, <1>6

(* The workqueue's endpoint handler, step by step. *)
LEMMA EndpointSteps ==
    ASSUME RelayInv, follow_endpoint \/ esb_hid_relay_pointer_reset
    PROVE  RelayInv'
<1>0. /\ key_ver \in Nat /\ button_ver \in Nat /\ endpoints \in Nat /\ paused \in BOOLEAN
      /\ buttons \in BOOLEAN
  BY DEF RelayInv, RelayTypes
<1>1. CASE follow_endpoint
  <2>1. /\ work = "idle" /\ endpoints' = endpoints + 1 /\ paused' = ~paused
        /\ key_ver' = IF key_down THEN key_ver + 1 ELSE key_ver
        /\ button_ver' = button_ver + 1 /\ work' = "reset"
        /\ UNCHANGED <<key_down, keys, zmk_button, clicks, sum, buttons, refresh_due,
                       isr_vars, queue_vars, polled_in_gap, input>>
    BY <1>1 DEF follow_endpoint
  <2>2. /\ endpoints' \in Nat \ {0} /\ key_ver' \in Nat /\ key_ver <= key_ver' /\ button_ver' \in Nat
    BY <1>0, <2>1
  <2>3. paused' \in BOOLEAN
    BY <2>1
  <2> QED BY <1>0, <2>1, <2>2, <2>3, EndpointStep
<1>2. CASE esb_hid_relay_pointer_reset
  <2>1. /\ work = "reset" /\ buttons' = (zmk_button /\ ~paused)
        /\ button_ver' = (IF buttons' = buttons THEN button_ver ELSE button_ver + 1)
        /\ work' = "latch"
        /\ UNCHANGED <<zmk_vars, end_vars, sum, refresh_due, isr_vars, queue_vars,
                       polled_in_gap, input>>
    BY <1>2 DEF esb_hid_relay_pointer_reset
  <2>2. endpoints # 0
    BY <2>1 DEF RelayInv, ButtonOrder
  <2>3. button_ver' \in Nat
    BY <1>0, <2>1
  <2>4. buttons' \in BOOLEAN
    BY <2>1
  <2>5. UNCHANGED <<key_down, keys, key_ver, zmk_button, clicks, endpoints, paused>>
    BY <2>1 DEF zmk_vars, end_vars
  <2>6. key_ver <= key_ver'
    BY <1>0, <2>5
  <2> QED BY <1>0, <2>1, <2>2, <2>3, <2>4, <2>5, <2>6, EndpointStep
<1> QED BY <1>1, <1>2

(* Every step keeps the invariant. *)
LEMMA RelayStep ==
    ASSUME RelayInv, [Next]_vars
    PROVE  RelayInv'
<1>1. CASE stage_keycode
  BY <1>1, KeycodeStep
<1>2. CASE CountKeycode
  BY <1>2, KeycodeCounted
<1>3. CASE hid_relay_keepalive_fire
  <2>1. work = "idle" /\ work' = "idle" /\ latch_relay_reports
        /\ UNCHANGED <<zmk_vars, end_vars, point_vars, isr_vars, reply_queue, replies_staged,
                       polled_in_gap, input>>
    BY <1>3 DEF hid_relay_keepalive_fire
  <2> QED BY <2>1, LatchKeepsOrder
<1>4. CASE follow_endpoint \/ esb_hid_relay_pointer_reset
  BY <1>4, EndpointSteps
<1>5. CASE LatchEndpoint
  <2>1. work = "latch" /\ work' = "idle" /\ latch_relay_reports
        /\ UNCHANGED <<zmk_vars, end_vars, point_vars, isr_vars, reply_queue, replies_staged,
                       polled_in_gap, input>>
    BY <1>5 DEF LatchEndpoint
  <2> QED BY <2>1, LatchKeepsOrder
<1>6. CASE \/ \E button \in BOOLEAN : CheckActive(button)
           \/ add_motion \/ add_button \/ stage_buttons \/ ZmkInputListener
  BY <1>6, InputSteps
<1>7. CASE PutButtons
  BY <1>7, ButtonsPut
<1>8. CASE CountButtons
  BY <1>8, ButtonsCounted
<1>9. ASSUME NEW usb \in UsbAnswers, Poll(usb) PROVE RelayInv'
  <2>1. RelayTypes' /\ QueueAccounted'
    BY <1>9, PollAccounts DEF RelayInv
  <2>2. KeyOrder' /\ LatchOrder'
    BY <1>9, PollKeepsKeys DEF RelayInv
  <2>3. MotionOrder'
    BY <1>9, PollKeepsMotion DEF RelayInv
  <2>4. ButtonOrder'
    BY <1>9, PollKeepsButtons DEF RelayInv
  <2> QED BY <2>1, <2>2, <2>3, <2>4 DEF RelayInv
<1>10. CASE Silence
  BY <1>10, SilenceStep
<1>11. CASE UNCHANGED vars
  <2>1. UNCHANGED <<zmk_vars, end_vars, point_vars, refresh_due, isr_vars, queue_vars,
                    work, polled_in_gap, input>>
    BY <1>11 DEF vars
  <2>2. /\ UNCHANGED <<key_down, keys, key_ver, zmk_button, clicks, sum, buttons, button_ver,
                       work, polled_in_gap, input>>
    BY <2>1 DEF zmk_vars, point_vars
  <2>3. /\ zmk_button \in BOOLEAN /\ clicks \in Nat /\ sum \in Nat /\ buttons \in BOOLEAN
        /\ button_ver \in Nat /\ input \in Inputs /\ input.report.id = "mouse"
    BY DEF RelayInv, RelayTypes
  <2>4. sum <= sum' /\ button_ver <= button_ver'
    BY <2>2, <2>3
  <2>5. endpoints = 0 /\ input'.at = "put" => input'.report.ver = button_ver'
    BY <2>2 DEF RelayInv, ButtonOrder
  <2> QED BY <2>1, <2>2, <2>3, <2>4, <2>5, InputStep
<1> QED BY <1>1, <1>2, <1>3, <1>4, <1>5, <1>6, <1>7, <1>8, <1>9, <1>10, <1>11 DEF Next

(* In every reachable state the invariant holds. *)
LEMMA RelayInvariant == Spec => []RelayInv
BY RelayInit, RelayStep, PTL DEF Spec

(* A step of the poll alone changes what the dongle delivered. *)
LEMMA DongleStep ==
    ASSUME RelayInv, Next
    PROVE  /\ dongle'.keys_ver >= dongle.keys_ver
           /\ endpoints' = 0 => dongle'.buttons_ver >= dongle.buttons_ver
           /\ dongle'.host >= dongle.host /\ dongle'.host <= sum'
<1>0. /\ dongle.keys_ver \in Nat /\ dongle.buttons_ver \in Nat /\ dongle.host \in Int
      /\ dongle.skipped \in Int /\ dongle.total \in Nat
      /\ written_body.total \in Nat /\ sum \in Nat
  BY DEF RelayInv, RelayTypes, Dongles, Reports
<1>1. dongle.host <= sum
  BY <1>0 DEF RelayInv, MotionOrder
<1>2. ASSUME NEW usb \in UsbAnswers, Poll(usb)
      PROVE  /\ dongle'.keys_ver >= dongle.keys_ver
             /\ endpoints' = 0 => dongle'.buttons_ver >= dongle.buttons_ver
             /\ dongle'.host >= dongle.host /\ dongle'.host <= sum'
  BY <1>2, PollKeepsKeys, PollKeepsMotion, PollKeepsButtons DEF RelayInv
<1>3. ASSUME ~(\E usb \in UsbAnswers : Poll(usb))
      PROVE  /\ dongle'.keys_ver = dongle.keys_ver /\ dongle'.buttons_ver = dongle.buttons_ver
             /\ dongle'.host = dongle.host /\ (sum' = sum \/ sum' = sum + 1)
  <2>1. CASE Silence
    BY <2>1, SilenceStep DEF Silence, point_vars
  <2>2. CASE add_motion
    BY <2>2 DEF add_motion, isr_vars
  <2>3. CASE ~Silence /\ ~add_motion
    <3>1. dongle' = dongle /\ sum' = sum
      BY <1>3, <2>3
         DEF Next, stage_keycode, CountKeycode, hid_relay_keepalive_fire, follow_endpoint,
             esb_hid_relay_pointer_reset, LatchEndpoint, CheckActive, add_button, stage_buttons,
             PutButtons, CountButtons, ZmkInputListener, isr_vars, point_vars
    <3> QED BY <3>1
  <2> QED BY <2>1, <2>2, <2>3
<1>4. ASSUME ~(\E usb \in UsbAnswers : Poll(usb))
      PROVE  /\ dongle'.keys_ver >= dongle.keys_ver /\ dongle'.buttons_ver >= dongle.buttons_ver
             /\ dongle'.host >= dongle.host /\ dongle'.host <= sum'
  <2>1. sum <= sum' /\ sum' \in Nat
    BY <1>0, <1>3, <1>4
  <2> QED BY <1>0, <1>1, <1>3, <1>4, <2>1
<1> QED BY <1>2, <1>4

(* Every report the queue accepted is still in it or reached the ACK FIFO    *)
(* once (esb_link_stage_reply, write_queued_replies).                        *)
THEOREM QueueIsAccounted == Spec => []QueueAccounted
BY RelayInvariant, PTL DEF RelayInv

(* The host never goes back to an older keyboard state, whatever is lost,    *)
(* refused, paused or latched (fresh_idle_reply).                            *)
THEOREM KeysInOrder == Spec => KeysNeverBackwards
<1>1. RelayInv /\ [Next]_vars => [dongle'.keys_ver >= dongle.keys_ver]_vars
  BY DongleStep
<1> QED BY <1>1, RelayInvariant, PTL DEF Spec, KeysNeverBackwards

(* Nor to an older button state while the central keeps its endpoint         *)
(* (report_buttons).                                                         *)
THEOREM ButtonsKeepOrder == Spec => ButtonsInOrder
<1>1. RelayInv /\ [Next]_vars => [endpoints' = 0 => dongle'.buttons_ver >= dongle.buttons_ver]_vars
  BY DongleStep
<1> QED BY <1>1, RelayInvariant, PTL DEF Spec, ButtonsInOrder

(* The host's pointer moves only by counts that were moved, each once        *)
(* (stamp_totals, deliver_pointer).                                          *)
THEOREM MotionAppliedOnce == Spec => MotionOnce
<1>1. RelayInv /\ [Next]_vars => [dongle'.host >= dongle.host /\ dongle'.host <= sum']_vars
  BY DongleStep
<1> QED BY <1>1, RelayInvariant, PTL DEF Spec, MotionOnce
=============================================================================
