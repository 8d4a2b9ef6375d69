---------------------------- MODULE PolicyManager ----------------------------
(***************************************************************************)
(* Policies: a condition on a metric of a GPU, checked once per cycle of   *)
(* the policy timer (PolicyTimer models when), and what is done when it is *)
(* met.  A whole cycle, and every operation of a client, runs under        *)
(* PolicyManager::mutex and is one step.  The monitor stores samples in    *)
(* between at its own pace, so a cycle may meet the sample it has already  *)
(* seen.                                                                   *)
(***************************************************************************)
EXTENDS Naturals, Sequences, FiniteSets, FiniteSetsExt, SequencesExt

CONSTANTS
    Device,     \* GPUs
    Stranger,   \* a device id no GPU has
    Tiles,      \* number of entries getLatestMetrics has for a GPU
    MaxValue,   \* bound: metric values are 0..MaxValue
    MaxTs,      \* bound: number of samples of a metric
    PolicySet,  \* the policies clients try to set
    Sampled,    \* the metrics the monitor samples: "temp", "ras"
    MaxPolicies \* bound: number of policies of a GPU

ASSUME PolicyAssumption ==
    /\ Stranger \notin Device
    /\ Sampled \subseteq {"temp", "ras"}
    /\ Tiles \in Nat \ {0} /\ MaxValue \in Nat /\ MaxTs \in Nat /\ MaxPolicies \in Nat

VARIABLES
    policyMap,  \* the list of policies of each GPU
    value, ts,  \* latest sample of each metric: a value per entry, one timestamp
    missing,    \* GPUs that have dropped off the PCIe bus
    throttled,  \* what getFrequencyState says: "no", "yes" or "error"
    freq,       \* frequency range last set on each GPU
    cycled,     \* history: whether the last step was a cycle,
    fired       \* and the policies it triggered

hw == <<value, ts, missing, throttled>>
vars == <<policyMap, hw, freq, cycled, fired>>

Entry == 1..Tiles
Metric == {"temp", "ras"}
Types == Metric \cup {"missing", "throttle"}
Policies(d) == Range(policyMap[d])
NoRange == <<0, 0>>
NotSeen == [e \in Entry |-> 0]

Init ==
    /\ policyMap = [d \in Device |-> <<>>]
    /\ value = [d \in Device |-> [m \in Metric |-> NotSeen]]
    /\ ts = [d \in Device |-> [m \in Metric |-> 0]]
    /\ missing = {}
    /\ throttled = [d \in Device |-> "no"]
    /\ freq = [d \in Device |-> NoRange]
    /\ cycled = FALSE /\ fired = {}

-----------------------------------------------------------------------------
(* The outside: samples of the monitor (an error counter never goes back), *)
(* a GPU that goes missing, the throttling state.                          *)
Sample(d, m) ==
    /\ ts[d][m] < MaxTs
    /\ ts' = [ts EXCEPT ![d][m] = @ + 1]
    /\ \E v \in [Entry -> 0..MaxValue] :
         /\ m = "ras" => \A e \in Entry : v[e] >= value[d][m][e]
         /\ value' = [value EXCEPT ![d][m] = v]
    /\ cycled' = FALSE /\ fired' = {}
    /\ UNCHANGED <<policyMap, missing, throttled, freq>>

Hardware(d) ==
    /\ \/ /\ missing' = (missing \ {d}) \cup ({d} \ missing)
          /\ UNCHANGED throttled
       \/ /\ \E s \in {"no", "yes", "error"} : throttled' = [throttled EXCEPT ![d] = s]
          /\ UNCHANGED missing
    /\ cycled' = FALSE /\ fired' = {}
    /\ UNCHANGED <<policyMap, value, ts, freq>>

-----------------------------------------------------------------------------
(* checkPolicyValidation *)
FrequencyCheck(p) ==
    IF p.action = "throttle" /\ (p.range[1] = 0 \/ p.range[2] = 0 \/ p.range[1] > p.range[2])
    THEN "POLICY_INVALID_FREQUENCY" ELSE "OK"

Conditions(type) ==
    CASE type = "temp"                    -> {"greater", "less"}
      [] type \in {"missing", "throttle"} -> {"occur"}
      [] OTHER                            -> {"greater", "less", "occur"}

Actions(type) == IF type = "temp" THEN {"null", "throttle"} ELSE {"null"}

Validation(p) ==
    IF p.type \notin Types THEN "POLICY_TYPE_INVALID"
    ELSE IF p.action \notin {"null", "throttle"} THEN "POLICY_ACTION_TYPE_INVALID"
    ELSE IF p.cond \notin {"greater", "less", "occur"} THEN "POLICY_CONDITION_TYPE_INVALID"
    ELSE IF p.cond \notin Conditions(p.type) THEN "POLICY_TYPE_CONDITION_NOT_SUPPORT"
    ELSE IF p.action \notin Actions(p.type) THEN "POLICY_TYPE_ACTION_NOT_SUPPORT"
    ELSE FrequencyCheck(p)

(* A policy as it is stored.  pre and preTs are what savePolicyStatus kept *)
(* of the last cycle; alarm is history: the sample that alarmed last.      *)
Stored(p) == [want |-> p, pre |-> 0, preTs |-> 0, alarm |-> 0]

OtherTypes(list, type) == SelectSeq(list, LAMBDA q : q.want.type # type)

-----------------------------------------------------------------------------
(* The operations of the clients.  S is the GPU or the members of a group. *)
SetPolicy(S, p) ==
    /\ \A d \in S \cap Device : Len(OtherTypes(policyMap[d], p.type)) < MaxPolicies
    /\ policyMap' = IF Stranger \in S \/ Validation(p) # "OK" THEN policyMap
         ELSE [d \in Device |->
                 IF d \in S THEN Append(OtherTypes(policyMap[d], p.type), Stored(p))
                 ELSE policyMap[d]]
    /\ cycled' = FALSE /\ fired' = {}
    /\ UNCHANGED <<hw, freq>>

DeletePolicy(S, type) ==
    /\ policyMap' = [d \in Device |->
         IF d \in S THEN OtherTypes(policyMap[d], type) ELSE policyMap[d]]
    /\ cycled' = FALSE /\ fired' = {}
    /\ UNCHANGED <<hw, freq>>

-----------------------------------------------------------------------------
(* One cycle *)

(* isPolicyMeetCondition on one entry *)
Meets(q, v) ==
    CASE q.want.cond = "greater" -> v > q.want.threshold
      [] q.want.cond = "less"    -> v < q.want.threshold
      [] q.want.cond = "occur"   -> v > q.pre

FreshIfNew(q, t) == t > q.preTs + 1

(* A sample no newer than the one of the last cycle is skipped.            *)
Fresh(q, t) == q.preTs = 0 \/ t > q.preTs

(* isPolicyMeetCondition: whether the policy is met, and the value and the *)
(* timestamp it leaves in curValue and curTimestamp.  The entries are      *)
(* tried in order up to the first that meets the condition.                *)
CheckMetric(q, v, t) ==
    LET met == {e \in Entry : Meets(q, v[e])}
    IN  IF t = 0 \/ ~Fresh(q, t) THEN [fire |-> FALSE, cur |-> 0, curTs |-> 0]
        ELSE IF met = {} THEN [fire |-> FALSE, cur |-> v[Tiles], curTs |-> t]
        ELSE [fire |-> TRUE, cur |-> v[Min(met)], curTs |-> t]

(* "Only care occur": the GPU is gone and was not in the cycle before.     *)
CheckMissing(q, gone) ==
    [fire |-> q.pre = 0 /\ gone, cur |-> IF gone THEN 1 ELSE 0, curTs |-> 1]

CheckThrottle(state) ==
    [fire |-> state = "yes", cur |-> IF state = "yes" THEN 1 ELSE 0,
     curTs |-> IF state = "error" THEN 0 ELSE 1]

Check(d, q) ==
    CASE q.want.type \in Metric     -> CheckMetric(q, value[d][q.want.type], ts[d][q.want.type])
      [] q.want.type = "missing"    -> CheckMissing(q, d \in missing)
      [] q.want.type = "throttle"   -> CheckThrottle(throttled[d])

(* triggerAction of the policies of one GPU, in the order of the list *)
RangeAfterKeep(d) == freq[d]

RangeAfter(d) ==
    LET hot == {i \in DOMAIN policyMap[d] : /\ policyMap[d][i].want.action = "throttle"
                                            /\ Check(d, policyMap[d][i]).fire}
    IN  IF hot = {} THEN freq[d] ELSE policyMap[d][Max(hot)].want.range

(* savePolicyStatus: what the cycle found becomes the past, a skipped      *)
(* sample included, which leaves 0 and 0.                                  *)
Saved(d, q) ==
    LET c == Check(d, q)
        m == q.want.type \in Metric
    IN  [q EXCEPT !.pre = c.cur, !.preTs = c.curTs,
                  !.alarm = IF m /\ c.fire THEN ts[d][q.want.type] ELSE @]

HandleForOneCycle ==
    /\ cycled' = TRUE
    /\ fired' = {x \in Device \X Types :
                   \E q \in Policies(x[1]) : q.want.type = x[2] /\ Check(x[1], q).fire}
    /\ freq' = [d \in Device |-> RangeAfter(d)]
    /\ policyMap' = [d \in Device |->
         [i \in DOMAIN policyMap[d] |-> Saved(d, policyMap[d][i])]]
    /\ UNCHANGED <<hw>>

-----------------------------------------------------------------------------
Targets == (SUBSET Device \ {{}}) \cup {{Stranger}}

Next ==
    \/ \E d \in Device, m \in Sampled : Sample(d, m)
    \/ \E d \in Device : Hardware(d)
    \/ \E S \in Targets, p \in PolicySet : SetPolicy(S, p)
    \/ \E S \in Targets, p \in PolicySet : DeletePolicy(S, p.type)
    \/ HandleForOneCycle

Spec == Init /\ [][Next]_vars

-----------------------------------------------------------------------------
(* Properties *)

Hot(d, q) == /\ q.want.type \in Metric /\ q.want.cond \in {"greater", "less"}
             /\ ts[d][q.want.type] > 0
             /\ \E e \in Entry : Meets(q, value[d][q.want.type][e])

(* No alarm is missed: when a cycle finds a sample that is past the        *)
(* threshold on any tile, the policy triggers then, or it has triggered on *)
(* this very sample before.                                                *)
NoMissedAlarm ==
    [][cycled' =>
        \A d \in Device : \A q \in Policies(d) :
          Hot(d, q) => <<d, q.want.type>> \in fired' \/ q.alarm = ts[d][q.want.type]]_vars

(* After a cycle with a hot sample the GPU runs in the range the policy    *)
(* asks for, also when the policy was replaced by another one meanwhile.   *)
ThrottledWhenHot ==
    [][cycled' =>
        \A d \in Device : \A q \in Policies(d) :
          q.want.action = "throttle" /\ <<d, q.want.type>> \in fired' => freq'[d] = q.want.range]_vars

=============================================================================
