----------------------------- MODULE EventTable -----------------------------
(***************************************************************************)
(* The native event table of rocs.c: rocs_init counts the events that the  *)
(* supported functions of all devices give, allocates the table, walks the *)
(* functions a second time to fill it, and enters every name in a hash     *)
(* table; the program then looks events up, reads and writes them; and     *)
(* rocs_shutdown forgets them.  The static arrays that merge the get and   *)
(* set functions of a device outlive the table.                            *)
(*                                                                         *)
(* One thread at a time is in here (_rocm_smi_lock).  A code is a position *)
(* of events, from 1 on.                                                   *)
(***************************************************************************)
EXTENDS EventNames, HTable, FiniteSets, Integers

CONSTANTS
  Systems,       \* the devices that a machine may have
  Peer,          \* the subvariants that stand for the devices
  MaxSessions,   \* bound: how often PAPI initialises the component
  MaxBadInsert,  \* bound: the events after the first three among whose names
                 \* one may find no memory
  Failing        \* what may fail: an allocation of an insertion, "htable" of
                 \* the whole hash table, "calloc" of the event table, closing
                 \* the iterator of the first or of the second walk

\* A system is a sequence of devices.  listed: a list of its supported
\* functions exists; functions: that list, the variants and subvariants in
\* place; freq: num_supported of its clocks; xgmi: its supported counter
\* groups; p2p and bandwidth: the answers about the way to another device.
SupportedFunction == [f : STRING, variant : STRING, sub : STRING]
Device == [listed : BOOLEAN, functions : Seq(SupportedFunction), freq : [Clocks -> 0..Len(Frequencies)],
           xgmi : SUBSET DOMAIN XgmiEvents, p2p : Seq({"yes", "no", "error"}),
           bandwidth : Seq(BOOLEAN)]
ASSUME EventTableAssumption ==
  /\ MaxSessions \in Nat \ {0} /\ MaxBadInsert \in Nat
  /\ Failing \subseteq {"entry", "key", "table", "buckets", "htable", "calloc",
                       "close_count", "close_fill"}
  /\ Systems \subseteq Seq(Device) /\ Peer \in Seq(STRING)
  /\ \A s \in Systems :
       /\ Len(s) <= Len(Peer)
       /\ \A d \in DOMAIN s :
            /\ Len(s[d].p2p) = Len(s) /\ Len(s[d].bandwidth) = Len(s)
            /\ \A i \in DOMAIN s[d].functions :
                 s[d].functions[i].f \in {"gpu_clk_freq_get", "gpu_clk_freq_set"} =>
                   s[d].functions[i].variant \in Clocks

\* What the theorems suppose of the machine, and neither walk looks at.  The
\* first walk asks of the way from a device to another and the second one of
\* the way back; and only the first one asks for the bandwidth, and stops where
\* it is refused, of a way that cannot be used.
WaysAgree ==
  \A s \in Systems : \A d, o \in DOMAIN s : d # o =>
    /\ s[o].p2p[d] = s[d].p2p[o]
    /\ s[d].p2p[o] = "no" /\ ~s[d].bandwidth[o] =>
         \A x \in DOMAIN s : x > o /\ x # d => s[d].p2p[x] # "yes"
\* The list of a device is sorted by name, then by sensor: what sets comes
\* after what gets, the first fan comes first, and little comes in between.
Merged == FanSpeed \cup PowerCap \cup PerfLevel
Ordered(fs) ==
  \A i \in DOMAIN fs :
    /\ fs[i].f = "power_cap_set" =>
         \E j \in 1..(i - 1) : fs[j].f = "power_cap_get" /\ fs[j].sub = fs[i].sub
    /\ fs[i].f = "perf_level_set" => \E j \in 1..(i - 1) : fs[j].f = "perf_level_get"
    /\ fs[i].f \in FanSpeed =>
         \E j \in 1..i : /\ fs[j].f = "fan_speed_get" /\ fs[j].sub = "sensor0"
                        /\ \A k \in 1..(j - 1) : fs[k].f \notin FanSpeed
    /\ \A j, k \in 1..(i - 1) :
         /\ j < k /\ {fs[i].f, fs[j].f} \subseteq Merged
         /\ Label(fs[j].f) = Label(fs[i].f)
         => fs[k].f \in Merged \cup {"fan_speed_max_get", "power_cap_range_get"}
InOrder == \A s \in Systems : \A d \in DOMAIN s : Ordered(s[d].functions)

VARIABLES
  system,
  phase,      \* down, count, fill, up, closing or dead
  dev,        \* the device that the walk is at
  count,      \* events_count of the first walk
  room,       \* the entries allocated
  events,     \* the entries written
  overrun,    \* an entry past the allocated ones was written
  names,      \* htable
  unnamed,    \* the codes whose name found no memory
  seenCount, seenFill,  \* the statics of the two walks: slot -> code
  bad,        \* the insertion whose allocation fails, and which one of it
  last,       \* the last access: code, mode, result, what it did
  sessions

tableVars == <<count, room, events, overrun, names, unnamed>>
seenVars  == <<seenCount, seenFill>>
vars == <<system, phase, dev, tableVars, seenVars, bad, last, sessions>>

None    == [code |-> 0, mode |-> "none", result |-> "none", value |-> "none", wrote |-> FALSE]
NoTable == create_table(HTABLE_MIN_SIZE)
Devices == DOMAIN system
Freq(d, f, variant) ==
  IF f \in {"gpu_clk_freq_get", "gpu_clk_freq_set"} THEN system[d].freq[variant] ELSE 0

Init ==
  /\ system \in Systems
  /\ phase = "down" /\ dev = 0 /\ count = 0 /\ room = 0 /\ events = <<>>
  /\ overrun = FALSE /\ names = NoTable /\ unnamed = {}
  /\ seenCount = <<>> /\ seenFill = <<>>
  /\ bad = <<0, "none">> /\ last = None /\ sessions = 0

----------------------------------------------------------------------------
(* The functions that merge into one event per slot.                       *)

Slot(d, e) == <<d, Label(e.f), IF e.f \in PowerCap THEN e.sub ELSE "none">>
SlotOf(seen, s) == IF s \in DOMAIN seen THEN seen[s] ELSE 0
Take(seen, s, code) == [x \in DOMAIN seen \cup {s} |-> IF x = s THEN code ELSE seen[x]]

----------------------------------------------------------------------------
(* The way to the other devices: the bandwidths of a device are asked in   *)
(* their order up to the first refusal.                                    *)

RefusedInCount(d, o) == system[d].p2p[o] = "error" \/ ~system[d].bandwidth[o]
RefusedInFill(d, o)  == \/ system[o].p2p[d] = "error"
                        \/ system[o].p2p[d] = "yes" /\ ~system[d].bandwidth[o]
Before(d, o) == {x \in Devices \ {d} : x <= o}
CountedWays(d) == {o \in Devices \ {d} : /\ system[d].p2p[o] = "yes"
                                         /\ \A x \in Before(d, o) : ~RefusedInCount(d, x)}
FilledWays(d)  == {o \in Devices \ {d} : /\ system[o].p2p[d] = "yes"
                                         /\ \A x \in Before(d, o) : ~RefusedInFill(d, x)}

\* LAST - FIRST, one less than the events there are.
handle_xgmi_events_count(d) ==
  LET groups == system[d].xgmi
  IN  (IF "XGMI" \in groups THEN Len(XgmiEvents["XGMI"]) - 1 ELSE 0)
      + (IF "XGMI_DATA_OUT" \in groups THEN Len(XgmiEvents["XGMI_DATA_OUT"]) - 1 ELSE 0)
      + 2 * Cardinality(CountedWays(d))

----------------------------------------------------------------------------
(* First walk.                                                             *)

\* c has the count so far and the slots seen.
SetCounted(c, d, e) ==   \* mutant: a set function counts for itself
  CASE e.f \in SplitFunctions ->
         [c EXCEPT !.n = @ + SplitCount(e.f, Freq(d, e.f, e.variant))]
    [] e.f \in Merged /\ SlotOf(c.seen, Slot(d, e)) = 0 ->
         [n |-> c.n + 1, seen |-> Take(c.seen, Slot(d, e), c.n)]
    [] e.f \in {"fan_speed_get", "power_cap_get", "perf_level_get"} -> c
    [] OTHER -> [c EXCEPT !.n = @ + (IF e.f \in Merged \/ HasName(e.f, e.variant) THEN 1 ELSE 0)]
CountEntry(c, d, e) ==
  CASE e.f \in SplitFunctions ->
         [c EXCEPT !.n = @ + SplitCount(e.f, Freq(d, e.f, e.variant))]
    [] e.f \in Merged /\ SlotOf(c.seen, Slot(d, e)) = 0 ->
         [n |-> c.n + 1, seen |-> Take(c.seen, Slot(d, e), c.n)]
    [] e.f \notin SplitFunctions \cup Merged /\ HasName(e.f, e.variant) ->
         [c EXCEPT !.n = @ + 1]
    [] OTHER -> c
\* What is counted after each function of the list of a device.
CountList(c, d) ==
  LET C[i \in 0 .. Len(system[d].functions)] ==
        IF i = 0 THEN c ELSE CountEntry(C[i - 1], d, system[d].functions[i])
  IN C

InitTables ==
  /\ phase = "down" /\ sessions < MaxSessions
  /\ sessions' = sessions + 1
  /\ phase' = "count" /\ dev' = 1 /\ count' = Len(InfoFunctions)
  /\ bad' \in ((1..MaxBadInsert) \X (Failing \cap Allocations))
             \cup ({0} \X ({"none"} \cup (Failing \ Allocations)))
  /\ UNCHANGED <<system, room, events, overrun, names, unnamed, seenVars, last>>

\* fn_fail of rocs_init: the events are not in ntv_table yet, so that only
\* the hash table is emptied, by htable_shutdown.
Fail ==
  /\ phase' = "down" /\ dev' = 0 /\ room' = 0 /\ events' = <<>>
  /\ names' = NoTable /\ unnamed' = {}

\* PAPI_EMISC when the iterator of a device cannot be closed.
CountDevice ==
  /\ phase = "count" /\ dev \in Devices
  /\ LET c == CountList([n |-> count, seen |-> seenCount], dev)[Len(system[dev].functions)]
     IN  \/ /\ ~system[dev].listed
           /\ dev' = dev + 1
           /\ UNCHANGED <<phase, room, events, names, unnamed, count, seenCount>>
        \/ /\ system[dev].listed /\ bad # <<0, "close_count">>
           /\ count' = c.n + handle_xgmi_events_count(dev)
           /\ seenCount' = c.seen /\ dev' = dev + 1
           /\ UNCHANGED <<phase, room, events, names, unnamed>>
        \/ /\ system[dev].listed /\ bad = <<0, "close_count">>
           /\ seenCount' = c.seen /\ Fail /\ UNCHANGED count
  /\ UNCHANGED <<system, overrun, seenFill, bad, last, sessions>>

----------------------------------------------------------------------------
(* Second walk.                                                            *)

Event(name, f, d, variant, sub, mode) ==
  [name |-> name, f |-> f, device |-> d, variant |-> variant, sub |-> sub,
   mode |-> mode, descr |-> f]

\* The next entry is written and its name inserted; only the memory for the
\* name or for a larger hash table can be missing, and nobody looks at that.
\* Nor does rocs_init look whether there is a hash table: without one no name
\* is ever inserted or found.
Fails(t) ==
  IF bad = <<0, "htable">> THEN "entry"
  ELSE IF Len(t.events) = bad[1] + Len(InfoFunctions) THEN bad[2] ELSE "none"
Add(t, ev) ==
  LET code  == Len(t.events) + 1
      fails == Fails(t)
  IN  [t EXCEPT !.events  = Append(@, ev),
                !.overrun = @ \/ code > room,
                !.names   = htable_insert(@, ev.name, code, fails),
                !.unnamed = IF fails = "entry" THEN @ \cup {code} ELSE @,
                !.fault   = @ \/ InsertFaults(t.names, ev.name, code, fails)]
Added(t, evs) ==
  LET A[i \in 0 .. Len(evs)] == IF i = 0 THEN t ELSE Add(A[i - 1], evs[i])
  IN A
AddAll(t, evs) == Added(t, evs)[Len(evs)]

InfoEvents == [i \in DOMAIN InfoFunctions |->
  Event(Name(InfoFunctions[i], 0, "none", "none"), InfoFunctions[i], 0, "none", "none", {"read"})]
SplitEvents(d, e) ==
  LET parts == Split(e.f, e.variant, e.sub, Freq(d, e.f, e.variant))
  IN  [i \in DOMAIN parts |->
         Event(Name(Label(e.f), d, parts[i][1], parts[i][2]), e.f, d,
               parts[i][1], parts[i][2], SplitMode(e.f))]
OwnEvent(d, e) ==
  Event(get_event_name(e.f, d, e.variant, e.sub), e.f, d, e.variant, e.sub,
        get_access_mode(e.f))

\* A set function gives the event of its get function its description and
\* the mode ROCS_ACCESS_MODE__RDWR, at the place that the static remembers.
ModeKept(t, code, f) ==   \* mutant: the mode stays that of the get function
  [t EXCEPT !.events[code].descr = f]
Overwrite(t, code, f) ==
  [t EXCEPT !.events[code].descr = f, !.events[code].mode = ReadWrite]
MergeSet(t, code, f) ==
  IF f \notin {"fan_speed_set", "power_cap_set", "perf_level_set"} THEN t
  ELSE IF code \in DOMAIN t.events THEN Overwrite(t, code, f)
  ELSE [t EXCEPT !.overrun = @ \/ code > room]

FillEntry(t, d, e) ==
  LET s == Slot(d, e)
  IN  CASE e.f \in SplitFunctions -> AddAll(t, SplitEvents(d, e))
        [] e.f \in Merged /\ SlotOf(t.seen, s) = 0 ->
             Add([t EXCEPT !.seen = Take(@, s, Len(t.events) + 1)], OwnEvent(d, e))
        [] e.f \in Merged /\ SlotOf(t.seen, s) > 0 -> MergeSet(t, t.seen[s], e.f)
        [] e.f \notin SplitFunctions \cup Merged /\ HasName(e.f, e.variant) ->
             Add(t, OwnEvent(d, e))
        [] OTHER -> t
FillList(t, d) ==
  LET T[i \in 0 .. Len(system[d].functions)] ==
        IF i = 0 THEN t ELSE FillEntry(T[i - 1], d, system[d].functions[i])
  IN T

XgmiOf(d, g) == [i \in DOMAIN XgmiEvents[g] |->
  Event(XgmiName(d, XgmiEvents[g][i]), "xgmi_evt_get", d, XgmiEvents[g][i], "none", {"read"})]
WayOf(d, o) ==
  IF o \notin FilledWays(d) THEN <<>>
  ELSE [i \in 1..2 |-> Event(Name("xgmi_bw_get", d, <<"min", "max">>[i], Peer[o]), "xgmi_bw_get",
                             d, <<"min", "max">>[i], Peer[o], {"read"})]
GroupOf(d, g) == IF g \in system[d].xgmi THEN XgmiOf(d, g) ELSE <<>>
WaysOf(d) ==
  LET W[o \in 0 .. Len(system)] ==
        IF o = 0 THEN <<>> ELSE W[o - 1] \o WayOf(d, o)
  IN W
handle_xgmi_events(t, d) ==
  AddAll(t, GroupOf(d, "XGMI") \o GroupOf(d, "XGMI_DATA_OUT") \o WaysOf(d)[Len(system)])

Table == [events |-> events, overrun |-> overrun, names |-> names,
          unnamed |-> unnamed, seen |-> seenFill, fault |-> FALSE]
Allocate ==
  /\ phase = "count" /\ dev \notin Devices
  /\ \/ /\ bad # <<0, "calloc">>
        /\ phase' = "fill" /\ dev' = 1 /\ room' = count
        /\ LET t == AddAll(Table, InfoEvents)
           IN  events' = t.events /\ names' = t.names /\ unnamed' = t.unnamed
     \/ bad = <<0, "calloc">> /\ Fail
  /\ UNCHANGED <<system, count, overrun, seenVars, bad, last, sessions>>

FillDevice ==
  /\ phase = "fill" /\ dev \in Devices
  /\ LET walked == FillList(Table, dev)[Len(system[dev].functions)]
         t      == handle_xgmi_events(walked, dev)
     IN  \/ /\ ~system[dev].listed
           /\ dev' = dev + 1
           /\ UNCHANGED <<phase, room, events, overrun, names, unnamed, seenFill>>
        \/ /\ system[dev].listed /\ bad = <<0, "close_fill">>
           /\ seenFill' = walked.seen /\ overrun' = walked.overrun /\ Fail
        \/ /\ system[dev].listed /\ bad # <<0, "close_fill">>
           /\ dev' = dev + 1 /\ UNCHANGED room
           /\ events' = t.events /\ overrun' = t.overrun /\ names' = t.names
           /\ unnamed' = t.unnamed /\ seenFill' = t.seen
           /\ phase' = (IF t.fault THEN "dead" ELSE "fill")
  /\ UNCHANGED <<system, count, seenCount, bad, last, sessions>>

\* PAPI_ECMP if the walks disagree.
FillEnds ==
  /\ phase = "fill" /\ dev \notin Devices
  /\ \/ /\ Len(events) = count
        /\ phase' = "up" /\ dev' = 0
        /\ UNCHANGED <<room, events, names, unnamed>>
     \/ Len(events) # count /\ Fail
  /\ UNCHANGED <<system, count, overrun, seenVars, bad, last, sessions>>

----------------------------------------------------------------------------
(* The table in use.                                                       *)

rocs_evt_name_to_code(name) == htable_find(names, name)

Masked == {"overdrive_level_get"} \cup PerfLevel \cup PowerCap
          \cup {"gpu_clk_freq_get", "gpu_clk_freq_set"}
WriteOnly == {"power_profile_set", "fan_reset"}

Refused(code, mode) == [code |-> code, mode |-> mode, result |-> "ENOSUPP",
                        value |-> "old", wrote |-> FALSE]
\* "Return error code as counter value to distinguish this case from a
\* successful read".
NoValue(code, mode) == [code |-> code, mode |-> mode, result |-> "OK",
                        value |-> "ENOSUPP", wrote |-> FALSE]
Failed(code, mode, value) == [code |-> code, mode |-> mode, result |-> "EMISC",
                              value |-> value, wrote |-> FALSE]
Read(code, value) == [code |-> code, mode |-> "read", result |-> "OK",
                      value |-> value, wrote |-> FALSE]
Written(code) == [code |-> code, mode |-> "write", result |-> "OK",
                  value |-> "old", wrote |-> TRUE]

\* An event that is only read.
ReadOnlyAccess(ev, code, mode) ==
  IF mode # "read" \/ ev.mode # {"read"} THEN {Refused(code, mode)}
  ELSE {Read(code, "sample"),
        Failed(code, mode, IF ev.f = "xgmi_evt_get" THEN "garbage" ELSE "old")}
       \cup (IF ev.f \in {"energy_count_get", "current_socket_power_get"}
             THEN {Read(code, "zero")} ELSE {})   \* RSMI_STATUS_INVALID_ARGS

\* An event that is read or written, as its mode permits; a clock is not set
\* to no frequency at all.
UncheckedAccess(ev, code, mode) ==   \* mutant: mode & event->mode is not tested
  {IF mode = "read" THEN Read(code, "sample") ELSE Written(code), Failed(code, mode, "old")}
MaskedAccess(ev, code, mode) ==
  IF mode \notin ev.mode THEN {NoValue(code, mode)}
  ELSE {IF mode = "read" THEN Read(code, "sample") ELSE Written(code),
        Failed(code, mode, "old")}
       \cup (IF mode = "write" /\ ev.f \in {"gpu_clk_freq_get", "gpu_clk_freq_set"}
             THEN {[Refused(code, mode) EXCEPT !.result = "EINVAL"]} ELSE {})

WriteOnlyAccess(ev, code, mode) ==
  IF mode # "write" \/ ev.mode # {"write"} THEN {NoValue(code, mode)}
  ELSE {Written(code), Failed(code, mode, "old")}

FanSpeedAccess(ev, code, mode) ==
  IF mode # "read" \/ ev.mode # {"read"} THEN {NoValue(code, mode)}
  ELSE {Read(code, "sample"), Failed(code, mode, "old")}

Access(code, mode) ==
  /\ phase = "up"
  /\ LET ev == events[code]
     IN  last' \in CASE ev.f \in Masked    -> MaskedAccess(ev, code, mode)
                     [] ev.f \in WriteOnly -> WriteOnlyAccess(ev, code, mode)
                     [] ev.f \in FanSpeed  -> FanSpeedAccess(ev, code, mode)
                     [] OTHER              -> ReadOnlyAccess(ev, code, mode)
  /\ UNCHANGED <<system, phase, dev, tableVars, seenVars, bad, sessions>>

----------------------------------------------------------------------------
(* rocs_shutdown.                                                          *)

ForgetEvents(t, evs) == FoldLeft(LAMBDA s, ev : htable_delete(s, ev.name), t, evs)

shutdown_event_table ==
  /\ phase = "up"
  /\ names' = ForgetEvents(names, events)
  /\ events' = <<>> /\ count' = 0 /\ room' = 0 /\ unnamed' = {}
  /\ phase' = "closing" /\ last' = None
  /\ UNCHANGED <<system, dev, overrun, seenVars, bad, sessions>>

htable_shutdown ==
  /\ phase = "closing"
  /\ names' = NoTable /\ phase' = "down"
  /\ UNCHANGED <<system, dev, count, room, events, overrun, unnamed, seenVars, bad, last, sessions>>

Next ==
  \/ InitTables \/ CountDevice \/ Allocate \/ FillDevice \/ FillEnds
  \/ \E code \in DOMAIN events, mode \in ReadWrite : Access(code, mode)
  \/ shutdown_event_table \/ htable_shutdown

Spec == Init /\ [][Next]_vars

----------------------------------------------------------------------------
(* Properties.                                                             *)

\* The two walks agree: the table that the first one sizes has an entry for
\* every event that the second one writes, and no entry is left unwritten.
\* This is of the first time that the component is initialised, and of devices
\* without XGMI counter groups, of which handle_xgmi_events_count misses one
\* event each.
TableExact ==
  sessions = 1 /\ (\A d \in Devices : system[d].xgmi = {}) =>
    /\ ~overrun
    /\ phase = "fill" /\ dev \notin Devices => Len(events) = room

\* In a table in use every code has a name of its own, and the hash table,
\* however often it was resized, knows these names and no other, but for the
\* one that found no memory; when the events are gone it is empty.
NamesMatchTable ==
  /\ phase = "up" =>
       /\ \A i, j \in DOMAIN events : events[i].name = events[j].name => i = j
       /\ \A i \in DOMAIN events :
            rocs_evt_name_to_code(events[i].name) = (IF i \in unnamed THEN {} ELSE {i})
       /\ names.size = Len(events) - Cardinality(unnamed)
  /\ phase = "closing" => names.size = 0 /\ \A id \in DOMAIN names.chain : names.chain[id] = <<>>

\* Every function of a device that has a name is offered, a set function by
\* the event of its get function, which is then writable too.  Speeds of fans
\* after the first one of a device are not offered, and neither is a merged
\* event once the component is initialised again.
Offered(d, e) ==
  \E i \in DOMAIN events :
    /\ events[i].device = d /\ Label(events[i].f) = Label(e.f)
    /\ e.f \in {"fan_speed_set", "power_cap_set", "perf_level_set"} =>
         events[i].mode = ReadWrite
    /\ e.f \notin SplitFunctions =>
         events[i].name = get_event_name(e.f, d, e.variant, e.sub)
SupportedOffered ==
  phase = "up" /\ sessions = 1 =>
    \A d \in Devices : system[d].listed =>
      \A i \in DOMAIN system[d].functions :
        LET e == system[d].functions[i]
        IN  \/ ~HasName(e.f, e.variant) \/ Offered(d, e)
            \/ e.f \in FanSpeed /\ e.sub # "sensor0"
            \/ e.f \in {"gpu_clk_freq_get", "gpu_clk_freq_set"} /\ Freq(d, e.f, e.variant) = 0

\* A device is only written through an event whose description says that it
\* can be written, and that describes the function which is called.
WritesAsDescribed ==
  last.wrote => LET ev == events[last.code]
                IN  "write" \in DescribedAccess(ev.descr, ev.variant) /\ Label(ev.descr) = Label(ev.f)

\* What the description of an event permits is not refused: rocs.c:2588 says
\* of fan_speed "Current fan speed in RPMs (Rotations Per Minute), Read/Write".
DescribedAccessWorks ==
  last.mode # "none" =>
    LET ev == events[last.code]
    IN  last.mode \in DescribedAccess(ev.descr, ev.variant) =>
          last.result # "ENOSUPP" /\ last.value # "ENOSUPP"
=============================================================================
