------------------------------- MODULE PCSamp -------------------------------
(***************************************************************************)
(* The PC sampling collector of                                            *)
(* src/plugins/collectors/pcsamp/PCSampCollector.cxx.                      *)
(*                                                                         *)
(* The collector keeps its parameters as an XDR blob (pcsamp_parameters,  *)
(* one unsigned sampling_rate).  startCollecting hooks pcsamp_stop_sampling *)
(* at the thread's exit and runs pcsamp_start_sampling with the rate;      *)
(* stopCollecting runs the stop and removes the collector's               *)
(* instrumentation of the thread.  getMetricValues is called once per      *)
(* performance-data blob of the thread, in the order the caller reads the *)
(* blobs, and adds to each subextent's "time" the share of every sample    *)
(* whose address the subextent holds, prorated by the part of the blob's  *)
(* time interval the subextent covers.                                     *)
(*                                                                         *)
(* Times are integers (nanoseconds) and the doubles of getMetricValues     *)
(* are exact rationals [num, den].                                         *)
(***************************************************************************)
EXTENDS Integers, Sequences, SequencesExt, FiniteSets

CONSTANTS
    Threads,     \* threads the collector is attached to
    Rates,       \* sampling rates a tool may set
    Blobs,       \* performance-data blobs: [tb, te, interval, pc, count]
    Subextents   \* the ExtentGroup queried: a sequence of [tb, te, ab, ae]

VARIABLES
    params,      \* the collector's parameter blob (XDR bytes)
    sampling,    \* the rate each thread's pcsamp_start_sampling got, or 0
    hooks,       \* threads with pcsamp_stop_sampling hooked at exit()
    values,      \* the "time" values of the subextents (rationals)
    read         \* blobs getMetricValues has been called on

vars == <<params, sampling, hooks, values, read>>
-----------------------------------------------------------------------------
(* xdr_u_int: four bytes, most significant first.                          *)
XdrUnsigned(v) == << (v \div 16777216) % 256, (v \div 65536) % 256,
                     (v \div 256) % 256, v % 256 >>
XdrDecodeUnsigned(b) == ((b[1] * 256 + b[2]) * 256 + b[3]) * 256 + b[4]

(* getDefaultParameterValues: sampling_rate 100, encoded.                 *)
DefaultParameterValues == XdrUnsigned(100)

(* getParameterValue("sampling_rate"): decode the blob, read the field.   *)
GetParameterValue(data) == XdrDecodeUnsigned(data)

(* setParameterValue("sampling_rate"): decode, set the field, re-encode;  *)
(* sampling_rate is the structure's only field.                           *)
SetParameterValue(data, v) == XdrUnsigned(v)
-----------------------------------------------------------------------------
NsPerSecond == 1000000000

RECURSIVE GCD(_, _)
GCD(a, b) == IF b = 0 THEN a ELSE GCD(b, a % b)
Q(n, d) == LET g == GCD(n, d) IN [num |-> n \div g, den |-> d \div g]
Zero == Q(0, 1)
(* Sum over the least common denominator, reduced.                        *)
QAdd(p, r) == LET l == (p.den \div GCD(p.den, r.den)) * r.den
              IN Q(p.num * (l \div p.den) + r.num * (l \div r.den), l)
QSum(s) == FoldSeq(QAdd, Zero, s)

(* TimeInterval [b, e): its width, and the width of its intersection.     *)
Width(x) == x.te - x.tb
Overlap(x, y) == LET b == IF x.tb > y.tb THEN x.tb ELSE y.tb
                     e == IF x.te < y.te THEN x.te ELSE y.te
                 IN IF e > b THEN e - b ELSE 0

(* An AddressRange [ab, ae] closed at the end (mutation).                 *)
HoldsClosed(s, pc) == s.ab <= pc /\ pc <= s.ae

(* AddressRange [ab, ae) holds pc.                                        *)
Holds(s, pc) == s.ab <= pc /\ pc < s.ae

(* subextents.getIntersectionWith(Extent(blob interval,                   *)
(* AddressRange(pc))): the subextents meeting the blob's interval and     *)
(* holding the sample's address.                                          *)
Intersection(b, pc) ==
    {j \in DOMAIN Subextents : Overlap(b, Subextents[j]) > 0 /\ Holds(Subextents[j], pc)}

(* The time attributable to sample i (count * interval / 1e9 seconds),    *)
(* times t_intersection / t_blob for subextent j.                         *)
Share(b, i, j) == Q(b.count[i] * b.interval * Overlap(b, Subextents[j]),
                    NsPerSecond * Width(b))

(* What one call adds to the value of subextent j.                        *)
Added(b, j) == QSum(SelectSeq([i \in DOMAIN b.pc |->
                                  IF j \in Intersection(b, b.pc[i])
                                  THEN Share(b, i, j) ELSE Zero],
                              LAMBDA x : x # Zero))
-----------------------------------------------------------------------------
Init ==
    /\ params = DefaultParameterValues
    /\ sampling = [t \in Threads |-> 0]
    /\ hooks = {}
    /\ values = [j \in DOMAIN Subextents |-> Zero]
    /\ read = {}

(* Collector::setParameterValue of a tool: the blob is decoded, the      *)
(* sampling rate set, and the blob re-encoded.                            *)
SetRate(v) ==
    /\ params' = SetParameterValue(params, v)
    /\ UNCHANGED <<sampling, hooks, values, read>>

(* startCollecting: pcsamp_stop_sampling is hooked at exit(), then        *)
(* pcsamp_start_sampling runs now with the collector's rate.              *)
StartCollecting(t) ==
    /\ hooks' = hooks \cup {t}
    /\ sampling' = [sampling EXCEPT ![t] = GetParameterValue(params)]
    /\ UNCHANGED <<params, values, read>>

(* stopCollecting: pcsamp_stop_sampling runs now, then every              *)
(* instrumentation of this collector in the thread is removed.            *)
StopCollecting(t) ==
    /\ sampling' = [sampling EXCEPT ![t] = 0]
    /\ hooks' = hooks \ {t}
    /\ UNCHANGED <<params, values, read>>

(* getMetricValues("time", extent of b, b, Subextents, values).  The      *)
(* caller's vector has a value per subextent and the blob a count per pc *)
(* (the two Asserts).                                                     *)
GetMetricValues(b) ==
    /\ b \notin read
    /\ Len(b.pc) = Len(b.count)
    /\ values' = [j \in DOMAIN values |-> QAdd(values[j], Added(b, j))]
    /\ read' = read \cup {b}
    /\ UNCHANGED <<params, sampling, hooks>>

Next ==
    \/ \E v \in Rates : SetRate(v)
    \/ \E t \in Threads : StartCollecting(t) \/ StopCollecting(t)
    \/ \E b \in Blobs : GetMetricValues(b)

Spec == Init /\ [][Next]_vars
-----------------------------------------------------------------------------
Rational == [num : Int, den : Nat \ {0}]

TypeOK ==
    /\ params \in Seq(0..255)
    /\ sampling \in [Threads -> Rates \cup {0, 100}]
    /\ hooks \subseteq Threads
    /\ values \in [DOMAIN Subextents -> Rational]
    /\ read \subseteq Blobs

(* The sampled time of the blobs read: count * interval / 1e9 seconds     *)
(* summed over every sample.                                              *)
SampledTime(bs) ==
    QSum([i \in 1..Len(SetToSeq(bs)) |->
            LET b == SetToSeq(bs)[i] IN
            QSum([k \in DOMAIN b.pc |-> Q(b.count[k] * b.interval, NsPerSecond)])])

(* The subextents tile the blobs: at every instant of a blob the address *)
(* of each of its samples lies in exactly one of them (a group of the     *)
(* extents of functions, one function's code in one time interval each).  *)
Tiles ==
    \A b \in Blobs : \A i \in DOMAIN b.pc : \A t \in b.tb..b.te-1 :
        Cardinality({j \in DOMAIN Subextents :
                       Subextents[j].tb <= t /\ t < Subextents[j].te
                       /\ Subextents[j].ab <= b.pc[i] /\ b.pc[i] < Subextents[j].ae}) = 1

(* getMetricValues splits each sample's time over the subextents that     *)
(* hold it, in proportion to the part of the blob's interval each covers; *)
(* so over subextents that tile the blobs (MC_PCSamp assumes Tiles) the   *)
(* values, whatever the order the caller reads the blobs in, add up to    *)
(* exactly the time sampled in the blobs read so far: no sample is lost  *)
(* or counted twice.                                                      *)
TimeConserved == QSum([j \in DOMAIN values |-> values[j]]) = SampledTime(read)
=============================================================================
