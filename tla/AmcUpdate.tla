----------------------------- MODULE AmcUpdate -----------------------------
(***************************************************************************)
(* The AMC firmware update over IPMI: the task cmd_firmware of the AMC     *)
(* manager drives the management controller (chip) of one card after       *)
(* another through /dev/ipmi0.  slot_ipmb_send builds the message out of   *)
(* globals (gCmd, gReqData); an answer carries no number, so one that      *)
(* comes too late is taken for the answer to the next command.             *)
(*                                                                         *)
(* An image is the sequence of units 1..Image.  The chips and the BMC are  *)
(* external: a chip asks for what it has not got yet, checks the signature *)
(* of the whole and takes the new firmware into use when it resets.        *)
(***************************************************************************)
EXTENDS Integers, Sequences, FiniteSetsExt, SequencesExt

CONSTANTS
    NumCards,
    Image,          \* units of the image
    Block,          \* units a chip asks for at a time
    Big, Small,     \* units of a packet: IPMI_TRANSFER_SIZE_BIG, _SMALL
    BusRetries,     \* MAX_RETRIES of ipmi_cmd
    SyncRetries,    \* retries of fw_update_sync
    ReadyPolls,     \* BSMC_READY_TIMEOUT_S
    AskSize,        \* cards whose chip asks for the size of the image
    MaxFaults       \* bound: commands that fail or are answered too late

ASSUME AmcAssumption == Small \in 1..(Big - 1) /\ Image \in Nat \ {0}

Card == 1..NumCards

VARIABLES
    chip,       \* card -> its management controller
    replies,    \* what can be received from /dev/ipmi0
    gReqData,   \* gReqData[0..gSize)
    upd,        \* the update task
    faults,
    late        \* an answer came too late

amcVars == <<chip, replies, gReqData, upd, faults, late>>

CmdOf(at) ==
    CASE at \in {"version", "ready", "confirm"} -> "INFO"
      [] at = "start" -> "START"
      [] at = "sync" -> "SYNC"
      [] at \in {"size", "data"} -> "DATA"

AmcInit ==
    /\ chip \in [Card -> [phase : {"idle"}, buf : {<<>>}, total : {0}, addr : {"b0"},
                          ver : {"old", "new"}, part : {0}]]
    /\ replies = <<>>
    /\ gReqData = <<>>
    /\ upd = [at |-> "idle", sent |-> FALSE, result |-> "none", named |-> TRUE, i |-> 1,
              addr |-> [c \in Card |-> "b0"], prev |-> [c \in Card |-> [ver |-> "old", part |-> 0]],
              to |-> "b0", max |-> Big, off |-> 0, size |-> 0, sync |-> 0, hop |-> FALSE,
              bus |-> 0, polls |-> 0, reset |-> FALSE]
    /\ faults = 0
    /\ late = FALSE

-----------------------------------------------------------------------------
(* The chip and the wire.                                                  *)
NoReply == [wire |-> "lost", kind |-> "short", good |-> FALSE, status |-> "OTHER",
            off |-> 0, size |-> 0, ver |-> "old", part |-> 0]
Ack == [NoReply EXCEPT !.wire = "ok", !.good = TRUE]
Nack == [NoReply EXCEPT !.wire = "ok"]

Status(phase) ==
    CASE phase = "busy" -> "WAIT" [] phase = "size" -> "GET_FILE_SIZE"
      [] phase = "read" -> "READ" [] phase = "complete" -> "COMPLETE"
      [] phase = "failed" -> "FAIL" [] phase = "idle" -> "OTHER"

InfoOf(ch) == [Ack EXCEPT !.kind = "info", !.ver = ch.ver, !.part = ch.part]
SyncState(ch) ==
    [Ack EXCEPT !.kind = "sync", !.status = Status(ch.phase), !.off = Len(ch.buf),
                !.size = IF ch.phase = "read" THEN Min({Block, ch.total - Len(ch.buf)}) ELSE 0]

SizeMsg == <<-1>>   \* data_size, no unit of an image
Received(ch, data) ==
    LET buf == ch.buf \o data IN
    {[ch EXCEPT !.buf = buf, !.phase = p] :
        p \in IF Len(buf) < ch.total THEN {"read", "busy"} ELSE {"busy"}}

(* What a chip may do with a command, and its answer *)
ChipAnswers(c, ch, cmd, data) ==
    CASE cmd = "INFO" -> {<<ch, InfoOf(ch)>>}
      [] cmd = "SYNC" -> {<<ch, SyncState(ch)>>}
      [] cmd = "START" ->
           {<<[ch EXCEPT !.phase = "busy", !.buf = <<>>, !.addr = a,
                         !.total = IF c \in AskSize THEN 0 ELSE Image], Ack>> : a \in {ch.addr, "ce"}}
      [] cmd = "DATA" /\ ch.phase = "size" ->
           {<<[ch EXCEPT !.phase = "busy", !.total = n], Ack>> :
               n \in IF data = SizeMsg THEN {Image} ELSE 1..(Image + 1)}
      [] cmd = "DATA" /\ ch.phase = "read" -> {<<n, Ack>> : n \in Received(ch, data)}
      [] OTHER -> {<<ch, Nack>>}

ChipReady(c) ==
    LET ch == chip[c] IN
    /\ ch.phase = "busy"
    /\ \E p \in CASE ch.total = 0 -> {"size"}
                  [] ch.total > Len(ch.buf) -> {"read"}
                  [] ch.buf = [k \in 1..Image |-> k] -> {"complete", "failed"}
                  [] OTHER -> {"failed"} :
         chip' = [chip EXCEPT ![c].phase = p]
    /\ UNCHANGED <<replies, gReqData, upd, faults, late>>

ChipReset(c) ==
    /\ chip[c].phase = "complete"
    /\ \E a \in {chip[c].addr, "ce"} :
         chip' = [chip EXCEPT ![c].phase = "idle", ![c].ver = "new",
                              ![c].part = 1 - @, ![c].addr = a]
    /\ UNCHANGED <<replies, gReqData, upd, faults, late>>

Reply(r) == replies' = Append(replies, r)

(* slot_ipmb_send.  A command may fail on the bus, where the chip does not *)
(* see it, or with another code, where it may have.                        *)
Deliver(c, addr, cmd, data) ==
    \/ /\ chip[c].addr = addr
       /\ \E o \in ChipAnswers(c, chip[c], cmd, data) :
            /\ chip' = [chip EXCEPT ![c] = o[1]]
            /\ \/ Reply(o[2]) /\ UNCHANGED faults
               \/ /\ faults < MaxFaults /\ faults' = faults + 1
                  /\ Reply([NoReply EXCEPT !.wire = "error"])
    \/ /\ UNCHANGED chip
       /\ Reply([NoReply EXCEPT !.wire = "bus"])
       /\ IF chip[c].addr = addr THEN faults < MaxFaults /\ faults' = faults + 1
                                 ELSE UNCHANGED faults

(* slot_ipmb_recv: the next answer, or none within RESPONSE_TIMEOUT_SEC    *)
Receive(r) ==
    \/ /\ r = Head(replies)
       /\ replies' = Tail(replies)
       /\ UNCHANGED <<faults, late>>
    \/ /\ r = NoReply
       /\ faults < MaxFaults /\ faults' = faults + 1
       /\ late' = TRUE
       /\ UNCHANGED replies

Arrivals == {NoReply} \cup ToSet(replies)

-----------------------------------------------------------------------------
(* The update task.                                                        *)
Packet(j) == [k \in 1..Min({j.size, j.max}) |-> j.off + k]

(* To the next command, with the globals it sets *)
Go(j) ==
    /\ upd' = [j EXCEPT !.sent = FALSE, !.bus = BusRetries]
    /\ gReqData' = IF j.at = "data" THEN Packet(j) ELSE gReqData

EndUnderNeededReset(j, ok) ==
    [j EXCEPT !.at = "done", !.result = IF ok THEN "OK" ELSE "ERROR"]

(* exit of cmd_firmware_update, and the result of the task *)
End(j, ok) ==
    [j EXCEPT !.at = "done", !.result = IF ok /\ ~j.reset THEN "OK" ELSE "ERROR"]

(* fw_update_sync, with its retries, and fw_update_transfer *)
Sync(j) == [j EXCEPT !.at = "sync", !.sync = SyncRetries, !.hop = FALSE]
Transfer(j, max) == Sync([j EXCEPT !.max = max, !.to = j.addr[j.i]])

TransferFailedAgain(j) == Transfer(j, Small)

(* The second transfer with small packets, or the end *)
TransferFailed(j) == IF j.max = Big THEN Transfer(j, Small) ELSE End(j, FALSE)

(* The completion check: the cards the file's version was not on already   *)
Skipped(j, c) == j.named /\ j.prev[c].ver = "new"

CheckFrom(j, c) ==
    LET rest == {d \in Card : d >= c /\ ~Skipped(j, d)} IN
    IF rest = {} THEN End(j, TRUE)
    ELSE [j EXCEPT !.at = "ready", !.i = Min(rest), !.polls = ReadyPolls, !.hop = FALSE]

NextCard(j) ==
    IF j.i = NumCards THEN CheckFrom(j, 1) ELSE [j EXCEPT !.at = "version", !.i = @ + 1]

(* IpmiAmcManager::flashAMCFirmware up to the first card; the image, the   *)
(* cards or the PCI devices may not be found.                              *)
FlashBegin(named) ==
    /\ upd.at = "idle"
    /\ Go([upd EXCEPT !.at = "version", !.named = named])
    /\ UNCHANGED <<chip, replies, faults, late>>

FlashRefused ==
    /\ upd.at = "idle"
    /\ Go(End(upd, FALSE))
    /\ UNCHANGED <<chip, replies, faults, late>>

(* The image size is not put into gReqData, so the data sent last is sent  *)
(* in its place.                                                           *)
Payload == IF upd.at = "size" /\ gReqData = <<>> THEN SizeMsg ELSE gReqData

TaskSend ==
    /\ upd.at \notin {"idle", "done"} /\ ~upd.sent
    /\ Deliver(upd.i, IF CmdOf(upd.at) = "DATA" THEN upd.to ELSE upd.addr[upd.i],
               CmdOf(upd.at), Payload)
    /\ upd' = [upd EXCEPT !.sent = TRUE]
    /\ UNCHANGED <<gReqData, late>>

Awaiting(at, r) == upd.at = at /\ upd.sent /\ Receive(r) /\ UNCHANGED chip
RepeatedOnAnyError(r) == r.wire \in {"bus", "error"} /\ upd.bus > 0
Repeated(r) == r.wire = "bus" /\ upd.bus > 0

(* The retry of ipmi_cmd: the message is built anew from the globals.      *)
BusRetry(r) ==
    /\ Awaiting(upd.at, r) /\ Repeated(r)
    /\ upd' = [upd EXCEPT !.bus = @ - 1, !.sent = FALSE]
    /\ UNCHANGED gReqData

Good(r) == r.wire = "ok" /\ r.good

(* get_fw_version *)
GotVersion(r) ==
    /\ Awaiting("version", r) /\ ~Repeated(r)
    /\ LET seen == [upd EXCEPT !.prev[upd.i] = [ver |-> r.ver, part |-> r.part]] IN
       CASE ~(Good(r) /\ r.kind = "info") -> Go(End(upd, FALSE))
         [] OTHER -> IF Skipped(seen, upd.i) THEN Go(NextCard(seen))
                                             ELSE Go([seen EXCEPT !.at = "start"])

(* fw_update_start *)
GotStart(r) ==
    /\ Awaiting("start", r) /\ ~Repeated(r)
    /\ Go(IF Good(r) THEN Transfer(upd, Big) ELSE End(upd, FALSE))

(* fw_update_sync: a failed one is repeated, then tried with the second    *)
(* address; an answer of another command that is long enough reads as one. *)
GotSync(r) ==
    /\ Awaiting("sync", r) /\ ~Repeated(r)
    /\ IF ~(Good(r) /\ r.kind \in {"sync", "info"})
       THEN CASE upd.sync > 0 -> Go([upd EXCEPT !.sync = @ - 1])
              [] upd.sync = 0 /\ ~upd.hop ->
                   Go([upd EXCEPT !.sync = SyncRetries, !.hop = TRUE, !.addr[upd.i] = "ce"])
              [] OTHER -> Go(TransferFailed(upd))
       ELSE \E status \in IF r.kind = "sync" THEN {r.status} ELSE {"COMPLETE", "FAIL", "OTHER"} :
            CASE status = "WAIT" -> Go(Sync(upd))
              [] status = "GET_FILE_SIZE" -> Go([upd EXCEPT !.at = "size"])
              [] status = "READ" ->
                   Go(IF r.off + r.size > Image THEN TransferFailed(upd)
                      ELSE [upd EXCEPT !.at = "data", !.off = r.off, !.size = r.size])
              [] status = "COMPLETE" -> Go(NextCard(upd))
              [] status = "FAIL" -> Go(TransferFailed(upd))
              [] status = "OTHER" -> Go(End(upd, FALSE))

(* The two sends of fw_update_transfer *)
GotSize(r) ==
    /\ Awaiting("size", r) /\ ~Repeated(r)
    /\ Go(IF r.wire = "ok" THEN Sync(upd) ELSE TransferFailed(upd))

GotData(r) ==
    /\ Awaiting("data", r) /\ ~Repeated(r)
    /\ LET n == Len(Packet(upd))
           rest == [upd EXCEPT !.off = @ + n, !.size = @ - n]
       IN  CASE ~Good(r) -> Go(TransferFailed(upd))
             [] OTHER -> Go(IF rest.size = 0 THEN Sync(rest) ELSE rest)

(* wait_for_bsmc: once with the address known, then with the second one    *)
GotReady(r) ==
    /\ Awaiting("ready", r) /\ ~Repeated(r)
    /\ LET known == Good(r) /\ r.kind = "info"
           again == [upd EXCEPT !.hop = TRUE, !.polls = ReadyPolls, !.addr[upd.i] = "ce"]
       IN  CASE known /\ r.part # upd.prev[upd.i].part -> Go([upd EXCEPT !.at = "confirm"])
             [] known /\ r.part = upd.prev[upd.i].part /\ upd.polls > 1 ->
                  Go([upd EXCEPT !.polls = @ - 1])
             [] OTHER -> Go(IF ~upd.hop THEN again
                            ELSE IF known THEN [upd EXCEPT !.at = "confirm", !.reset = TRUE]
                            ELSE End(upd, FALSE))

GotConfirm(r) ==
    /\ Awaiting("confirm", r) /\ ~Repeated(r)
    /\ Go(IF Good(r) /\ r.kind = "info" THEN CheckFrom(upd, upd.i + 1) ELSE End(upd, FALSE))

-----------------------------------------------------------------------------
TaskStep ==
    \/ TaskSend
    \/ \E r \in Arrivals :
         \/ BusRetry(r) \/ GotVersion(r) \/ GotStart(r) \/ GotSync(r) \/ GotSize(r)
         \/ GotData(r) \/ GotReady(r) \/ GotConfirm(r)

AmcNext ==
    \/ TaskStep
    \/ FlashRefused
    \/ \E named \in BOOLEAN : FlashBegin(named)
    \/ \E c \in Card : ChipReady(c) \/ ChipReset(c)

(* The task thread runs, and a chip does not prepare its flash for ever.   *)
AmcFairness ==
    /\ WF_amcVars(TaskStep)
    /\ \A c \in Card : WF_amcVars(ChipReady(c))

-----------------------------------------------------------------------------
(* A flash task that reports OK has brought every card to the new firmware *)
(* and into use, however often commands failed, packets were repeated or a *)
(* card changed its address, as long as no answer came too late.           *)
AmcOkMeansUpdated ==
    upd.result = "OK" /\ ~late => \A c \in Card : chip[c].ver = "new"

(* What a chip has got is the beginning of the image, also after a         *)
(* transfer was given up half-way and begun again with small packets: the  *)
(* messages carry no offset, so the host's place and the chip's must       *)
(* agree.                                                                  *)
AmcInOrder ==
    ~late => \A c \in Card :
        chip[c].buf = [k \in 1..Len(chip[c].buf) |-> k] /\ Len(chip[c].buf) <= Image

(* The task ends, and its callback unlocks the devices, whatever fails on  *)
(* the wire or in the chips and wherever a card moves, unless an answer    *)
(* comes too late.  (One that does can hide that the data goes to an       *)
(* address the card has left, and the transfer goes on for ever.)          *)
AmcEnds == upd.at # "idle" ~> upd.at = "done" \/ late

=============================================================================
