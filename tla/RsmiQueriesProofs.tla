-------------------------- MODULE RsmiQueriesProofs --------------------------
(***************************************************************************)
(* The descriptors and events of the notifications of rocm_smi_lib, and    *)
(* that its devices are the GPUs of the system, proved for any number of   *)
(* threads, devices, descriptors, cards, nodes and sessions.  The last     *)
(* part is about the mutex of a device, for any number of processes.       *)
(***************************************************************************)
EXTENDS RsmiQueries, SharedMutex, FiniteSetTheorems, SequenceTheorems,
        WellFoundedInduction, TLAPS

-----------------------------------------------------------------------------
(* Types.  What a card, an address or a gpu_id is does not matter: all of  *)
(* them are in some set X.                                                 *)

Kinds == {"free", "app", "kfd", "anon", "listening"}
Numbers == Fds \cup {NoFile}
Desc(X) == [kind : Kinds, gpu : X, unread : Nat]
Dev(X) == [card : X, bdf : X, gpu : X, fd : Numbers, file : Numbers]
TypedIn(X) ==
  /\ 0 \in X
  /\ open \in [Fds -> Desc(X)]
  /\ devices \in [DOMAIN devices -> Dev(X)]
TypeInv ==
  /\ \E X : TypedIn(X)
  /\ refCount \in Nat /\ failed \in Nat /\ fhRefs \in Nat
  /\ fh \in Numbers
  /\ inits \in [Threads -> Nat]
  /\ unopened \in BOOLEAN /\ misused \in BOOLEAN

\* A notification that could be opened has a file of its own, for its GPU.
FilesInv ==
  /\ \A i \in DOMAIN devices : devices[i].file # NoFile =>
       /\ devices[i].fd = devices[i].file
       /\ IsNotification(devices[i].file)
       /\ open[devices[i].file].gpu = devices[i].gpu
  /\ \A i, j \in DOMAIN devices :
       devices[i].file = devices[j].file /\ devices[i].file # NoFile => i = j

\* One that could not is there for good, so that nobody cleans up any more.
OpenedInv ==
  /\ unopened <=> \E i \in Started : devices[i].file = NoFile
  /\ misused => unopened

\* Without a session there are no devices, and only a handle that Cleanup
\* closed.
HandleInv ==
  /\ refCount = 0 => devices = <<>>
  /\ IsFiniteSet(Started)
  /\ refCount > 0 \/ fh = NoFile =>
       /\ fhRefs = Cardinality(Started) + failed
       /\ (fh # NoFile) <=> (fhRefs > 0)
       /\ fh # NoFile => open[fh].kind = "kfd"

FdInv == TypeInv /\ FilesInv /\ HandleInv

-----------------------------------------------------------------------------
(* Facts about what the steps are made of.                                 *)

LEMMA FdFacts ==
  /\ Fds \subseteq Nat /\ NoFile \notin Fds
  /\ MaxFd \in Nat
BY SessionAssumption DEF SessionAssumption, Fds, NoFile

\* The devices of a successful Initialize have no notifications.
LEMMA NewDevices ==
  ASSUME NEW D, NEW s, NEW found, NEW kfd, D = Matched(s, found, kfd)
  PROVE  /\ \A i \in DOMAIN D : D[i].fd = NoFile /\ D[i].file = NoFile
         /\ \E Y : D \in [DOMAIN D -> Dev(Y)]
<1>1. PICK kept, g : /\ DOMAIN D = DOMAIN kept /\ D = [i \in DOMAIN kept |-> D[i]]
                     /\ \A i \in DOMAIN kept : D[i] = Device(kept[i], g[i])
  <2>1. PICK kept : D = [i \in DOMAIN kept |-> Device(kept[i], kfd[kept[i].bdf].gpu)]
    BY DEF Matched
  <2>2. PICK g : g = [i \in DOMAIN kept |-> kfd[kept[i].bdf].gpu]
    OBVIOUS
  <2>3. \A i \in DOMAIN kept : g[i] = kfd[kept[i].bdf].gpu
    BY <2>2
  <2>4. \A i \in DOMAIN kept : D[i] = Device(kept[i], kfd[kept[i].bdf].gpu)
    BY <2>1
  <2>5. DOMAIN D = DOMAIN kept /\ D = [i \in DOMAIN kept |-> D[i]]
    BY <2>1
  <2>6. \A i \in DOMAIN kept : D[i] = Device(kept[i], g[i])
    BY <2>3, <2>4
  <2> QED
    BY <2>5, <2>6
<1>2. PICK Y : Y = {kept[i].card : i \in DOMAIN kept} \cup
                   {kept[i].bdf : i \in DOMAIN kept} \cup
                   {g[i] : i \in DOMAIN kept}
  OBVIOUS
<1>3. ASSUME NEW i \in DOMAIN kept
      PROVE  D[i] \in Dev(Y) /\ D[i].fd = NoFile /\ D[i].file = NoFile
  <2>1. D[i] = [card |-> kept[i].card, bdf |-> kept[i].bdf, gpu |-> g[i],
                fd |-> NoFile, file |-> NoFile]
    BY <1>1 DEF Device
  <2>2. kept[i].card \in Y /\ kept[i].bdf \in Y /\ g[i] \in Y
    BY <1>2
  <2> QED
    BY <2>1, <2>2 DEF Dev, Numbers
<1>4. D \in [DOMAIN D -> Dev(Y)]
  BY <1>1, <1>3
<1> QED
  BY <1>1, <1>3, <1>4

LEMMA Wider ==
  ASSUME NEW X, NEW Y, X \subseteq Y
  PROVE  Desc(X) \subseteq Desc(Y) /\ Dev(X) \subseteq Dev(Y)
BY DEF Desc, Dev

\* Opening /dev/kfd.
LEMMA HandleOpens ==
  ASSUME NEW X, TypedIn(X), fh \in Numbers,
         fh # NoFile => open[fh].kind = "kfd",
         NEW H \in Handles, NEW h, NEW o, h = H[1], o = H[2]
  PROVE  /\ h \in Fds /\ o \in [Fds -> Desc(X)] /\ o[h].kind = "kfd"
         /\ fh # NoFile => h = fh /\ o = open
         /\ \A f \in Fds \ {h} : o[f] = open[f]
         /\ ~IsNotification(h) /\ open[h].kind # "app"
<1>1. CASE fh # NoFile
  <2>1. h = fh /\ o = open
    BY <1>1 DEF Handles
  <2> QED
    BY <1>1, <2>1 DEF TypedIn, Numbers, IsNotification
<1>2. CASE fh = NoFile
  <2>0. PICK f \in LowestOf(FreeFds) :
          H = <<f, [open EXCEPT ![f] = [Free EXCEPT !.kind = "kfd"]]>>
    BY <1>2 DEF Handles
  <2>1. /\ f \in FreeFds /\ h = f
        /\ o = [open EXCEPT ![f] = [Free EXCEPT !.kind = "kfd"]]
    BY <2>0 DEF LowestOf
  <2>2. [Free EXCEPT !.kind = "kfd"] = [kind |-> "kfd", gpu |-> 0, unread |-> 0]
    BY DEF Free
  <2>3. f \in Fds /\ open[f].kind = "free"
    BY <2>1 DEF FreeFds
  <2>4. [kind |-> "kfd", gpu |-> 0, unread |-> 0] \in Desc(X)
    BY DEF TypedIn, Desc, Kinds
  <2> QED
    BY <1>2, <2>1, <2>2, <2>3, <2>4 DEF TypedIn, IsNotification
<1> QED
  BY <1>1, <1>2

-----------------------------------------------------------------------------
(* Steps that leave the devices and the handle as they are.                *)

\* What every such step does to the descriptors.
Gentle ==
  \A f \in Fds :
    /\ open[f].kind \in {"app", "kfd"} => open'[f].kind = open[f].kind
    /\ IsNotification(f) => /\ open'[f].kind \in {"anon", "listening"}
                            /\ open'[f].gpu = open[f].gpu

LEMMA QuietStep ==
  ASSUME FdInv, TypeInv', Gentle,
         UNCHANGED <<refCount, devices, handle, failed>>
  PROVE  FilesInv' /\ HandleInv'
<1>1. Started' = Started
  BY DEF Started
<1>2. FilesInv'
  BY DEF FdInv, FilesInv, Gentle, IsNotification
<1>3. fh \in Numbers
  BY DEF FdInv, TypeInv
<1>4. HandleInv'
  BY <1>1, <1>3 DEF FdInv, HandleInv, Gentle, handle, Numbers
<1> QED
  BY <1>2, <1>4

\* A descriptor that changes in a way that types allow.
LEMMA TypesKept ==
  ASSUME TypeInv, UNCHANGED <<refCount, devices, handle, failed, inits>>,
         unopened' \in BOOLEAN, misused' \in BOOLEAN,
         \A X : TypedIn(X) => open' \in [Fds -> Desc(X)]
  PROVE  TypeInv'
<1>1. PICK X : TypedIn(X)
  BY DEF TypeInv
<1>2. TypedIn(X)'
  BY <1>1 DEF TypedIn
<1> QED
  BY <1>2 DEF TypeInv, handle

LEMMA RaiseStep ==
  ASSUME FdInv, NEW f \in Fds, Raise(f)
  PROVE  FdInv' /\ Gentle
<1>1. /\ open[f].kind = "listening"
      /\ open' = [open EXCEPT ![f].unread = @ + 1]
      /\ UNCHANGED <<refCount, devices, handle, failed, inits, unopened, misused>>
  BY DEF Raise, flags
<1>2. ASSUME NEW X, TypedIn(X)
      PROVE  open' \in [Fds -> Desc(X)]
  BY <1>1, <1>2 DEF TypedIn, Desc
<1>3. TypeInv'
  BY <1>1, <1>2, TypesKept DEF FdInv, TypeInv
<1>4. Gentle
  BY <1>1 DEF FdInv, TypeInv, TypedIn, Desc, Gentle, IsNotification
<1> QED
  BY <1>1, <1>3, <1>4, QuietStep DEF FdInv

LEMMA ReadStep ==
  ASSUME FdInv, NEW t \in Threads, ReadEvent(t)
  PROVE  FdInv' /\ Gentle
<1>1. PICK f : f = get[t].file
  OBVIOUS
<1>2. /\ f \in Fds /\ open[f].unread > 0
      /\ open' = [open EXCEPT ![f].unread = @ - 1]
      /\ UNCHANGED <<refCount, devices, handle, failed, inits, unopened, misused>>
  BY <1>1 DEF ReadEvent, Getting, IsNotification
<1>3. ASSUME NEW X, TypedIn(X)
      PROVE  open' \in [Fds -> Desc(X)]
  BY <1>2, <1>3 DEF TypedIn, Desc
<1>4. TypeInv'
  BY <1>2, <1>3, TypesKept DEF FdInv, TypeInv
<1>5. Gentle
  BY <1>2 DEF FdInv, TypeInv, TypedIn, Desc, Gentle, IsNotification
<1> QED
  BY <1>2, <1>4, <1>5, QuietStep DEF FdInv

LEMMA AppStep ==
  ASSUME FdInv, AppOpens
  PROVE  FdInv' /\ Gentle
<1>1. PICK f \in FreeFds :
        /\ open' = [open EXCEPT ![f] = [Free EXCEPT !.kind = "app"]]
        /\ UNCHANGED <<refCount, devices, handle, failed, inits, unopened, misused>>
  BY DEF AppOpens, flags, LowestOf
<1>2. f \in Fds /\ open[f].kind = "free"
  BY <1>1 DEF FreeFds
<1>3. [Free EXCEPT !.kind = "app"] = [kind |-> "app", gpu |-> 0, unread |-> 0]
  BY DEF Free
<1>4. ASSUME NEW X, TypedIn(X)
      PROVE  open' \in [Fds -> Desc(X)]
  BY <1>1, <1>2, <1>3, <1>4 DEF TypedIn, Desc, Kinds
<1>5. TypeInv'
  BY <1>1, <1>4, TypesKept DEF FdInv, TypeInv
<1>6. Gentle
  BY <1>1, <1>2 DEF FdInv, TypeInv, TypedIn, Desc, Gentle, IsNotification
<1> QED
  BY <1>1, <1>5, <1>6, QuietStep DEF FdInv

LEMMA MaskStep ==
  ASSUME FdInv, NEW t \in Threads, NEW i \in DOMAIN devices,
         rsmi_event_notification_mask_set(t, i)
  PROVE  FdInv' /\ Gentle
<1>1. UNCHANGED <<refCount, devices, handle, failed, inits, unopened>>
  BY DEF rsmi_event_notification_mask_set
<1>2. CASE open' = open
  <2>1. misused' \in BOOLEAN
    BY <1>2 DEF FdInv, TypeInv, rsmi_event_notification_mask_set
  <2>2. TypeInv'
    BY <1>1, <1>2, <2>1, TypesKept DEF FdInv, TypeInv, TypedIn
  <2>3. Gentle
    BY <1>2 DEF Gentle, IsNotification
  <2> QED
    BY <1>1, <2>2, <2>3, QuietStep DEF FdInv
<1>3. CASE open' # open
  <2>1. PICK f : f = devices[i].fd
    OBVIOUS
  <2>2. /\ IsNotification(f) /\ misused' = misused
        /\ open' = [open EXCEPT ![f].kind = "listening"]
    BY <1>3, <2>1 DEF rsmi_event_notification_mask_set
  <2>3. ASSUME NEW X, TypedIn(X)
        PROVE  open' \in [Fds -> Desc(X)]
    BY <2>2, <2>3 DEF TypedIn, Desc, Kinds, IsNotification
  <2>4. TypeInv'
    BY <1>1, <2>2, <2>3, TypesKept DEF FdInv, TypeInv
  <2>5. Gentle
    BY <2>2 DEF FdInv, TypeInv, TypedIn, Desc, Gentle, IsNotification
  <2> QED
    BY <1>1, <2>4, <2>5, QuietStep DEF FdInv
<1> QED
  BY <1>2, <1>3

-----------------------------------------------------------------------------
(* Steps that change the devices or the handle.                            *)

\* Nothing started: as after Initialize, Cleanup and in the beginning.
LEMMA NothingStarted ==
  ASSUME NEW D, \A i \in DOMAIN D : D[i].fd = NoFile /\ D[i].file = NoFile
  PROVE  {i \in DOMAIN D : D[i].fd # NoFile} = {}
OBVIOUS

\* The list of devices is made anew, or dropped.
LEMMA DevicesAnew ==
  ASSUME FdInv, open' = open, handle' = handle, failed' = failed,
         Started = {},
         fh = NoFile, refCount' = 0 => devices' = <<>>,
         \A i \in DOMAIN devices' : devices'[i].fd = NoFile /\ devices'[i].file = NoFile,
         \E Y : devices' \in [DOMAIN devices' -> Dev(Y)],
         refCount' \in Nat, inits' \in [Threads -> Nat],
         unopened' \in BOOLEAN, misused' \in BOOLEAN
  PROVE  FdInv'
<1>1. PICK X : TypedIn(X)
  BY DEF FdInv, TypeInv
<1>2. PICK Y : devices' \in [DOMAIN devices' -> Dev(Y)]
  OBVIOUS
<1>3. PICK Z : Z = X \cup Y
  OBVIOUS
<1>4. Desc(X) \subseteq Desc(Z) /\ Dev(Y) \subseteq Dev(Z)
  BY <1>3, Wider
<1>5. TypedIn(Z)'
  BY <1>1, <1>2, <1>3, <1>4 DEF TypedIn
<1>6. TypeInv'
  BY <1>5 DEF FdInv, TypeInv, handle
<1>7. FilesInv'
  BY DEF FilesInv
<1>8. Started' = {}
  BY NothingStarted DEF Started
<1>9. HandleInv'
  BY <1>8 DEF FdInv, HandleInv, handle
<1> QED
  BY <1>6, <1>7, <1>9 DEF FdInv

LEMMA SessionInit ==
  ASSUME ~CallerReinits, FdInv, NEW t \in Threads, NEW all \in BOOLEAN,
         rsmi_init(t, all)
  PROVE  FdInv' /\ open' = open
<1>1. UNCHANGED <<handle, failed, misused>>
  BY DEF rsmi_init
<1>2. refCount \in Nat /\ inits \in [Threads -> Nat] /\ misused' \in BOOLEAN
  BY <1>1 DEF FdInv, TypeInv
<1>3. refCount = 0 => fh = NoFile /\ devices = <<>> /\ Started = {}
  BY DEF rsmi_init, FdInv, HandleInv, Started
<1>4. CASE UNCHANGED <<devices, maps, open, unopened>> /\ refCount # 0
  <2>1. refCount' \in Nat /\ inits' \in [Threads -> Nat] /\ refCount' # 0
    BY <1>2, <1>4 DEF rsmi_init, InitializeThrows
  <2>2. Started' = Started
    BY <1>4 DEF Started
  <2>3. TypeInv'
    <3>1. PICK X : TypedIn(X)
      BY DEF FdInv, TypeInv
    <3>2. TypedIn(X)'
      BY <1>4, <3>1 DEF TypedIn
    <3> QED
      BY <1>1, <1>4, <2>1, <3>2 DEF FdInv, TypeInv, handle
  <2>4. FilesInv'
    BY <1>4 DEF FdInv, FilesInv, IsNotification
  <2>5. HandleInv'
    <3>1. refCount > 0
      BY <1>2, <1>4
    <3>2. /\ IsFiniteSet(Started) /\ fhRefs = Cardinality(Started) + failed
          /\ (fh # NoFile) <=> (fhRefs > 0)
          /\ fh # NoFile => open[fh].kind = "kfd"
      BY <3>1 DEF FdInv, HandleInv
    <3> QED
      BY <1>1, <1>4, <2>1, <2>2, <3>2 DEF HandleInv, handle
  <2> QED
    BY <1>4, <2>3, <2>4, <2>5 DEF FdInv
<1>5. CASE refCount = 0 /\ refCount' = refCount + 1 /\ Initialize(all)
  <2>1. inits' \in [Threads -> Nat] /\ refCount' = 1
    BY <1>2, <1>5 DEF rsmi_init, InitializeThrows
  <2>2. PICK found, kfd : devices' = Matched(sys, found, kfd)
    BY <1>5 DEF Initialize
  <2>3. /\ \A i \in DOMAIN devices' :
             devices'[i].fd = NoFile /\ devices'[i].file = NoFile
        /\ \E Y : devices' \in [DOMAIN devices' -> Dev(Y)]
    BY <2>2, NewDevices
  <2>4. open' = open /\ unopened' = unopened
    BY <1>5 DEF Initialize
  <2>5. unopened' \in BOOLEAN
    BY <2>4 DEF FdInv, TypeInv
  <2> QED
    BY <1>1, <1>2, <1>3, <1>5, <2>1, <2>3, <2>4, <2>5, DevicesAnew
<1>6. CASE refCount = 0 /\ InitializeThrows
  <2>1. /\ devices' = <<>> /\ open' = open /\ unopened' = FALSE
        /\ refCount' = refCount /\ inits' = inits
    BY <1>3, <1>6 DEF InitializeThrows, Cleanup
  <2>2. devices' \in [DOMAIN devices' -> Dev({})]
    BY <2>1
  <2>3. \A i \in DOMAIN devices' : FALSE
    BY <2>1
  <2> QED
    BY <1>1, <1>2, <1>3, <1>6, <2>1, <2>2, <2>3, DevicesAnew
<1>7. refCount = 0 => refCount # MaxRef
  BY SessionAssumption DEF SessionAssumption
<1> QED
  BY <1>2, <1>4, <1>5, <1>6, <1>7 DEF rsmi_init

LEMMA SessionEnd ==
  ASSUME FdInv, NEW t \in Threads, rsmi_shut_down(t)
  PROVE  /\ FdInv'
         /\ \A f \in Fds : open[f].kind = "app" => open'[f].kind = "app"
<1>1. UNCHANGED <<handle, failed, misused>>
  BY DEF rsmi_shut_down
<1>2. refCount \in Nat /\ inits \in [Threads -> Nat] /\ misused' \in BOOLEAN
  BY <1>1 DEF FdInv, TypeInv
<1>3. PICK X : TypedIn(X)
  BY DEF FdInv, TypeInv
<1>4. CASE UNCHANGED <<devices, open, unopened>> /\ refCount # 1
  <2>1. /\ refCount' \in Nat /\ inits' \in [Threads -> Nat]
        /\ refCount' = 0 => refCount = 0
        /\ refCount' > 0 => refCount > 0
    BY <1>2, <1>4 DEF rsmi_shut_down
  <2>2. Started' = Started
    BY <1>4 DEF Started
  <2>3. TypedIn(X)'
    BY <1>3, <1>4 DEF TypedIn
  <2>4. TypeInv'
    BY <1>1, <1>4, <2>1, <2>3 DEF FdInv, TypeInv, handle
  <2>5. FilesInv'
    BY <1>4 DEF FdInv, FilesInv, IsNotification
  <2>6. HandleInv'
    BY <1>1, <1>4, <2>1, <2>2 DEF FdInv, HandleInv, handle
  <2> QED
    BY <1>4, <2>4, <2>5, <2>6 DEF FdInv
<1>5. CASE refCount = 1
  <2>1. /\ Started = {} /\ refCount' = 0 /\ devices' = <<>> /\ unopened' = FALSE
        /\ inits' \in [Threads -> Nat]
        /\ open' = IF fh = NoFile THEN open ELSE [open EXCEPT ![fh] = Free]
    BY <1>2, <1>5 DEF rsmi_shut_down, Cleanup
  <2>2. fh # NoFile => open[fh].kind = "kfd" /\ fh \in Fds
    BY <1>5 DEF FdInv, HandleInv, TypeInv, Numbers
  <2>3. Free \in Desc(X)
    BY <1>3 DEF Free, Desc, Kinds, TypedIn
  <2>4. /\ open' \in [Fds -> Desc(X)]
        /\ \A f \in Fds : open[f].kind = "app" => open'[f].kind = "app"
    BY <1>3, <2>1, <2>2, <2>3 DEF TypedIn
  <2>5. TypedIn(X)'
    BY <1>3, <2>1, <2>4 DEF TypedIn
  <2>6. TypeInv'
    BY <1>1, <1>2, <2>1, <2>5 DEF FdInv, TypeInv, handle
  <2>7. FilesInv'
    BY <2>1 DEF FilesInv
  <2>8. HandleInv'
    <3>1. Started' = {}
      BY <2>1 DEF Started
    <3>2. fhRefs = failed /\ (fh # NoFile <=> fhRefs > 0)
      BY <1>5, <2>1, FS_EmptySet DEF FdInv, HandleInv, TypeInv
    <3> QED
      BY <1>1, <1>2, <2>1, <3>1, <3>2, FS_EmptySet DEF HandleInv, FdInv,
         TypeInv, handle
  <2> QED
    BY <2>4, <2>6, <2>7, <2>8 DEF FdInv
<1> QED
  BY <1>2, <1>4, <1>5 DEF rsmi_shut_down

\* What such a step leaves as it was, in every case.
LEMMA NotifyFrame ==
  ASSUME FdInv, NEW i \in DOMAIN devices
  PROVE  /\ refCount > 0 /\ refCount \in Nat
         /\ fhRefs \in Nat /\ failed \in Nat /\ IsFiniteSet(Started)
         /\ fhRefs = Cardinality(Started) + failed
         /\ (fh # NoFile) <=> (fhRefs > 0)
         /\ fh # NoFile => open[fh].kind = "kfd"
<1>1. refCount \in Nat /\ refCount # 0
  BY DEF FdInv, TypeInv, HandleInv
<1>2. refCount > 0
  BY <1>1
<1> QED
  BY <1>1, <1>2 DEF FdInv, TypeInv, HandleInv

\* A step that uses the handle h once more, opened or not.
LEMMA HandleCounts ==
  ASSUME FdInv, TypeInv', NEW i \in DOMAIN devices,
         NEW h \in Fds, fh' = h, fhRefs' = fhRefs + 1, refCount' = refCount,
         open'[h].kind = "kfd",
         \/ failed' = failed + 1 /\ Started' = Started
         \/ failed' = failed /\ i \notin Started /\ Started' = Started \cup {i}
  PROVE  HandleInv'
<1>1. /\ refCount > 0 /\ refCount \in Nat
      /\ fhRefs \in Nat /\ failed \in Nat /\ IsFiniteSet(Started)
      /\ fhRefs = Cardinality(Started) + failed
  BY NotifyFrame
<1>2. h # NoFile
  BY FdFacts
<1>3. IsFiniteSet(Started') /\ fhRefs' = Cardinality(Started') + failed'
  <2>1. CASE failed' = failed + 1 /\ Started' = Started
    BY <1>1, <2>1, FS_CardinalityType
  <2>2. CASE failed' = failed /\ i \notin Started /\ Started' = Started \cup {i}
    <3>1. /\ IsFiniteSet(Started')
          /\ Cardinality(Started') = Cardinality(Started) + 1
      BY <1>1, <2>2, FS_AddElement
    <3>2. Cardinality(Started) \in Nat
      BY <1>1, FS_CardinalityType
    <3> QED
      BY <1>1, <2>2, <3>1, <3>2
  <2> QED
    BY <2>1, <2>2
<1> QED
  BY <1>1, <1>2, <1>3 DEF HandleInv

\* What follows when the handle h is open, with the descriptors o.
Prepares(i, h, o) ==
  \/ /\ failed < MaxFailures
     /\ open' = o /\ failed' = failed + 1
     /\ UNCHANGED <<devices, unopened>>
  \/ \E anon \in LowestOf({f \in Fds : o[f].kind = "free"}) :
       /\ o[h].kind = "kfd" /\ UNCHANGED failed
       /\ \/ /\ devices' = [devices EXCEPT ![i].fd = anon]
             /\ open' = o /\ unopened' = TRUE
          \/ /\ devices' = [devices EXCEPT ![i].fd = anon,
                                           ![i].file = anon]
             /\ open' = [o EXCEPT ![anon] =
                           [kind |-> "anon", gpu |-> devices[i].gpu,
                            unread |-> 0]]
             /\ UNCHANGED unopened

LEMMA NotifyInitStep ==
  ASSUME FdInv, NEW t \in Threads, NEW i \in DOMAIN devices,
         rsmi_event_notification_init(t, i)
  PROVE  /\ FdInv'
         /\ \A f \in Fds : open[f].kind = "app" => open'[f].kind = "app"
<1>1. UNCHANGED <<refCount, inits, misused>> /\ devices[i].fd = NoFile
  BY DEF rsmi_event_notification_init
<1>2. PICK X : TypedIn(X)
  BY DEF FdInv, TypeInv
<1>3. fh \in Numbers /\ (fh # NoFile => open[fh].kind = "kfd")
  BY NotifyFrame DEF FdInv, TypeInv
<1>4. devices[i].file = NoFile
  BY <1>1 DEF FdInv, FilesInv
<1>5. CASE UNCHANGED <<devices, handle, open, failed, unopened>>
  <2>1. TypedIn(X)'
    BY <1>2, <1>5 DEF TypedIn
  <2>2. TypeInv'
    BY <1>1, <1>5, <2>1 DEF FdInv, TypeInv, handle
  <2>3. Gentle
    BY <1>5 DEF Gentle, IsNotification
  <2> QED
    BY <1>1, <1>5, <2>2, <2>3, QuietStep DEF FdInv
<1>6. ASSUME NEW H \in Handles, NEW h, NEW o, h = H[1], o = H[2],
             fh' = h, fhRefs' = fhRefs + 1,
             Prepares(i, h, o)
      PROVE  /\ FdInv'
             /\ \A f \in Fds : open[f].kind = "app" => open'[f].kind = "app"
  <2>1. /\ h \in Fds /\ o \in [Fds -> Desc(X)] /\ o[h].kind = "kfd"
        /\ \A f \in Fds \ {h} : o[f] = open[f]
        /\ ~IsNotification(h) /\ open[h].kind # "app"
    <3>1. H \in Handles /\ h = H[1] /\ o = H[2]
      BY <1>6
    <3>2. TypedIn(X) /\ fh \in Numbers /\ (fh # NoFile => open[fh].kind = "kfd")
      BY <1>2, <1>3
    <3> QED
      BY ONLY <3>1, <3>2, HandleOpens
  <2>2. fhRefs' \in Nat /\ h \in Numbers
    <3>1. fhRefs' = fhRefs + 1
      BY <1>6
    <3>2. fhRefs \in Nat
      BY NotifyFrame
    <3> QED
      BY <2>1, <3>1, <3>2 DEF Numbers
  <2>3. CASE /\ open' = o /\ failed' = failed + 1
             /\ UNCHANGED <<devices, unopened>>
    <3>1. TypedIn(X)'
      BY <1>2, <2>1, <2>3 DEF TypedIn
    <3>2. failed' \in Nat
      BY <2>3 DEF FdInv, TypeInv
    <3>3. TypeInv'
      BY <1>1, <1>6, <2>2, <2>3, <3>1, <3>2 DEF FdInv, TypeInv
    <3>4. FilesInv'
      BY <2>1, <2>3 DEF FdInv, FilesInv, IsNotification
    <3>5. Started' = Started
      BY <2>3 DEF Started
    <3>6. HandleInv'
      BY <1>1, <1>6, <2>1, <2>3, <3>3, <3>5, HandleCounts
    <3> QED
      BY <2>1, <2>3, <3>3, <3>4, <3>6 DEF FdInv
  <2>4. ASSUME NEW anon \in Fds, o[anon].kind = "free", UNCHANGED failed,
               \/ /\ devices' = [devices EXCEPT ![i].fd = anon]
                  /\ open' = o /\ unopened' = TRUE
               \/ /\ devices' = [devices EXCEPT ![i].fd = anon,
                                                ![i].file = anon]
                  /\ open' = [o EXCEPT ![anon] =
                                [kind |-> "anon", gpu |-> devices[i].gpu,
                                 unread |-> 0]]
                  /\ UNCHANGED unopened
        PROVE  /\ FdInv'
               /\ \A f \in Fds : open[f].kind = "app" => open'[f].kind = "app"
    <3>1. /\ anon # h /\ anon # NoFile /\ anon \in Numbers
          /\ o[anon] = open[anon] /\ ~IsNotification(anon)
      BY <2>1, <2>4, FdFacts DEF IsNotification, Numbers
    <3>2. devices[i] \in Dev(X) /\ devices[i].gpu \in X /\ 0 \in X
      BY <1>2 DEF TypedIn, Dev
    <3>3. /\ DOMAIN devices' = DOMAIN devices /\ devices'[i].fd = anon
          /\ devices'[i].gpu = devices[i].gpu
          /\ devices'[i].file \in {NoFile, anon}
          /\ \A j \in DOMAIN devices \ {i} : devices'[j] = devices[j]
          /\ devices' \in [DOMAIN devices -> Dev(X)]
      BY <1>2, <1>4, <2>4, <3>1, <3>2 DEF TypedIn, Dev, Numbers
    <3>4. /\ open' \in [Fds -> Desc(X)]
          /\ \A f \in Fds \ {anon} : open'[f] = o[f]
          /\ devices'[i].file = anon =>
               open'[anon].kind = "anon" /\ open'[anon].gpu = devices[i].gpu
      <4>1. CASE open' = o /\ devices' = [devices EXCEPT ![i].fd = anon]
        BY <1>4, <2>1, <3>1, <3>2, <4>1 DEF Dev
      <4>2. CASE open' = [o EXCEPT ![anon] =
                            [kind |-> "anon", gpu |-> devices[i].gpu,
                             unread |-> 0]]
        <5>1. [kind |-> "anon", gpu |-> devices[i].gpu, unread |-> 0] \in Desc(X)
          BY <3>2 DEF Desc, Kinds
        <5> QED
          BY <2>1, <4>2, <5>1
      <4> QED
        BY <2>4, <4>1, <4>2
    <3>5. TypedIn(X)'
      BY <3>2, <3>3, <3>4 DEF TypedIn
    <3>6. unopened' \in BOOLEAN
      BY <2>4 DEF FdInv, TypeInv
    <3>7. TypeInv'
      BY <1>1, <1>6, <2>2, <2>4, <3>5, <3>6 DEF FdInv, TypeInv
    <3>8. \A j \in DOMAIN devices \ {i} : devices[j].file # NoFile =>
            /\ devices'[j] = devices[j] /\ devices[j].file # anon
            /\ devices[j].fd = devices[j].file
            /\ IsNotification(devices[j].file)
            /\ open'[devices[j].file] = open[devices[j].file]
            /\ open[devices[j].file].gpu = devices[j].gpu
      BY <2>1, <3>1, <3>3, <3>4 DEF FdInv, FilesInv, IsNotification
    <3>9. FilesInv'
      <4>1. ASSUME NEW j \in DOMAIN devices, devices'[j].file # NoFile
            PROVE  /\ devices'[j].fd = devices'[j].file
                   /\ devices'[j].file \in Fds
                   /\ open'[devices'[j].file].kind \in {"anon", "listening"}
                   /\ open'[devices'[j].file].gpu = devices'[j].gpu
        BY <3>1, <3>3, <3>4, <3>8, <4>1 DEF IsNotification
      <4>2. ASSUME NEW j \in DOMAIN devices, NEW k \in DOMAIN devices,
                   devices'[j].file = devices'[k].file,
                   devices'[j].file # NoFile
            PROVE  j = k
        BY <3>1, <3>3, <3>8, <4>2 DEF FdInv, FilesInv
      <4> QED
        BY <3>3, <4>1, <4>2 DEF FilesInv, IsNotification
    <3>10. Started' = Started \cup {i} /\ i \notin Started
      BY <1>1, <3>1, <3>3 DEF Started
    <3>11. open'[h].kind = "kfd"
      BY <2>1, <3>1, <3>4
    <3>12. HandleInv'
      BY <1>1, <1>6, <2>1, <2>4, <3>7, <3>10, <3>11, HandleCounts
    <3>13. \A f \in Fds : open[f].kind = "app" => open'[f].kind = "app"
      BY <2>1, <2>4, <3>1, <3>4
    <3> QED
      BY <3>7, <3>9, <3>12, <3>13 DEF FdInv
  <2>5. LowestOf({f \in Fds : o[f].kind = "free"}) \subseteq
          {f \in Fds : o[f].kind = "free"}
    BY DEF LowestOf
  <2> QED
    BY <1>6, <2>3, <2>4, <2>5 DEF Prepares
<1>7. ASSUME ~UNCHANGED <<devices, handle, open, failed, unopened>>
      PROVE  /\ FdInv'
             /\ \A f \in Fds : open[f].kind = "app" => open'[f].kind = "app"
  <2>1. PICK H \in Handles :
          /\ fh' = H[1] /\ fhRefs' = fhRefs + 1 /\ Prepares(i, H[1], H[2])
    BY <1>7, Zenon DEF rsmi_event_notification_init, Count, Prepares
  <2>2. PICK h, o : h = H[1] /\ o = H[2]
    OBVIOUS
  <2> QED
    BY <1>6, <2>1, <2>2
<1> QED
  BY <1>5, <1>7

LEMMA StopStep ==
  ASSUME FdInv, NEW t \in Threads, NEW i \in DOMAIN devices,
         rsmi_event_notification_stop(t, i)
  PROVE  /\ FdInv'
         /\ \A f \in Fds : open[f].kind = "app" => open'[f].kind = "app"
<1>1. UNCHANGED <<refCount, inits, failed, unopened>>
  BY DEF rsmi_event_notification_stop
<1>2. PICK X : TypedIn(X)
  BY DEF FdInv, TypeInv
<1>3. PICK f : f = devices[i].file
  OBVIOUS
<1>4. CASE UNCHANGED <<devices, handle, open>> /\ misused' \in BOOLEAN
  <2>1. TypedIn(X)'
    BY <1>2, <1>4 DEF TypedIn
  <2>2. TypeInv'
    BY <1>1, <1>4, <2>1 DEF FdInv, TypeInv, handle
  <2>3. Gentle
    BY <1>4 DEF Gentle, IsNotification
  <2> QED
    BY <1>1, <1>4, <2>2, <2>3, QuietStep DEF FdInv
<1>5. CASE /\ devices[i].fd # NoFile /\ IsNotification(f)
           /\ devices' = [devices EXCEPT ![i].fd = NoFile, ![i].file = NoFile]
           /\ fhRefs' = fhRefs - 1
           /\ fh' = IF fhRefs = 1 THEN NoFile ELSE fh
           /\ open' = IF fhRefs = 1
                      THEN [[open EXCEPT ![f] = Free] EXCEPT ![fh] = Free]
                      ELSE [open EXCEPT ![f] = Free]
           /\ misused' = misused
  <2>1. f \in Fds /\ f # NoFile /\ open[f].kind \in {"anon", "listening"}
    BY <1>5, FdFacts DEF IsNotification
  <2>2. i \in Started
    BY <1>5 DEF Started
  <2>3. /\ refCount > 0 /\ refCount \in Nat
        /\ fhRefs \in Nat /\ failed \in Nat /\ IsFiniteSet(Started)
        /\ fhRefs = Cardinality(Started) + failed
        /\ (fh # NoFile) <=> (fhRefs > 0)
        /\ fh # NoFile => open[fh].kind = "kfd"
    BY NotifyFrame
  <2>4. /\ IsFiniteSet(Started \ {i})
        /\ Cardinality(Started \ {i}) = Cardinality(Started) - 1
        /\ Cardinality(Started \ {i}) \in Nat /\ Cardinality(Started) \in Nat
    BY <2>2, <2>3, FS_RemoveElement, FS_CardinalityType
  <2>5. fhRefs > 0 /\ fhRefs - 1 \in Nat
    BY <2>3, <2>4
  <2>6. fh # NoFile /\ open[fh].kind = "kfd" /\ fh # f
    BY <2>1, <2>3, <2>5
  <2>7. fh \in Fds
    BY <2>6 DEF FdInv, TypeInv, Numbers
  <2>8. [kind |-> "free", gpu |-> 0, unread |-> 0] \in Desc(X)
    BY <1>2 DEF TypedIn, Desc, Kinds
  <2>9. /\ open' \in [Fds -> Desc(X)]
        /\ \A g \in Fds \ {f, fh} : open'[g] = open[g]
        /\ fhRefs # 1 => open'[fh] = open[fh]
    BY <1>2, <1>5, <2>1, <2>6, <2>7, <2>8 DEF TypedIn, Free
  <2>10. devices[i] \in Dev(X) /\ NoFile \in Numbers
    BY <1>2 DEF TypedIn, Numbers
  <2>11. /\ devices' \in [DOMAIN devices -> Dev(X)]
         /\ DOMAIN devices' = DOMAIN devices
         /\ devices'[i].fd = NoFile /\ devices'[i].file = NoFile
         /\ \A j \in DOMAIN devices \ {i} : devices'[j] = devices[j]
    BY <1>2, <1>5, <2>10 DEF TypedIn, Dev
  <2>12. TypedIn(X)'
    BY <1>2, <2>9, <2>11 DEF TypedIn
  <2>13. fh' \in Numbers /\ fhRefs' \in Nat
    BY <1>5, <2>5, <2>7 DEF Numbers
  <2>14. TypeInv'
    BY <1>1, <1>5, <2>12, <2>13 DEF FdInv, TypeInv
  <2>15. \A j \in DOMAIN devices \ {i} : devices[j].file # NoFile =>
           /\ devices[j].file # f /\ devices[j].file # fh
           /\ devices[j].file \in Fds
           /\ devices[j].fd = devices[j].file
           /\ open[devices[j].file].kind \in {"anon", "listening"}
           /\ open[devices[j].file].gpu = devices[j].gpu
    BY <1>3, <2>1, <2>6 DEF FdInv, FilesInv, IsNotification
  <2>16. \A j \in DOMAIN devices \ {i} : devices[j].file # NoFile =>
           open'[devices[j].file] = open[devices[j].file]
    BY <2>9, <2>15
  <2>17. FilesInv'
    BY <2>11, <2>15, <2>16 DEF FdInv, FilesInv, IsNotification
  <2>18. Started' = Started \ {i}
    BY <2>11 DEF Started
  <2>19. HandleInv'
    <3>1. /\ refCount' > 0 /\ IsFiniteSet(Started')
          /\ fhRefs' = Cardinality(Started') + failed'
      BY <1>1, <1>5, <2>3, <2>4, <2>18
    <3>2. (fh' # NoFile) <=> (fhRefs' > 0)
      BY <1>5, <2>3, <2>5
    <3>3. fh' # NoFile => open'[fh'].kind = "kfd"
      BY <1>5, <2>3, <2>6, <2>9
    <3>4. refCount' # 0
      BY <1>1, <2>3
    <3> QED
      BY <3>1, <3>2, <3>3, <3>4 DEF HandleInv
  <2>20. \A g \in Fds : open[g].kind = "app" => open'[g].kind = "app"
    BY <2>1, <2>6, <2>9
  <2> QED
    BY <2>14, <2>17, <2>19, <2>20 DEF FdInv
<1>6. misused \in BOOLEAN
  BY DEF FdInv, TypeInv
<1>7. CASE devices[i].fd = NoFile
  BY <1>4, <1>6, <1>7 DEF rsmi_event_notification_stop
<1>8. CASE devices[i].fd # NoFile /\ ~IsNotification(f)
  BY <1>3, <1>4, <1>8 DEF rsmi_event_notification_stop
<1>9. CASE devices[i].fd # NoFile /\ IsNotification(f)
  BY <1>3, <1>5, <1>9 DEF rsmi_event_notification_stop, Stopped, ReleaseHandle
<1> QED
  BY <1>7, <1>8, <1>9

\* Steps that touch no descriptor and no device.
LEMMA StillStep ==
  ASSUME FdInv, misused' \in BOOLEAN,
         UNCHANGED <<refCount, devices, handle, open, inits, failed, unopened>>
  PROVE  FdInv' /\ Gentle
<1>1. PICK X : TypedIn(X)
  BY DEF FdInv, TypeInv
<1>2. TypedIn(X)'
  BY <1>1 DEF TypedIn
<1>3. TypeInv'
  BY <1>2 DEF FdInv, TypeInv, handle
<1>4. Gentle
  BY DEF Gentle, IsNotification
<1> QED
  BY <1>3, <1>4, QuietStep DEF FdInv

\* The steps of a call that leave the descriptors alone.
Still ==
  \/ \E t \in Threads :
       \/ Query(t)
       \/ \E room \in 1 .. MaxRoom : rsmi_event_notification_get(t, room)
       \/ NextFile(t) \/ EndOfFile(t) \/ ReadClosed(t)
       \/ PollEnds(t) \/ GetReturns(t)
  \/ \E s \in Systems : Repartition(s)

LEMMA StillStays ==
  ASSUME Still
  PROVE  /\ UNCHANGED <<refCount, devices, handle, open, inits, failed, unopened>>
         /\ misused' = misused \/ misused' = TRUE
<1>1. ASSUME NEW t \in Threads, Query(t)
      PROVE  /\ UNCHANGED <<refCount, devices, handle, open, inits, failed, unopened>>
             /\ misused' = misused
  BY ZenonT(30), <1>1 DEF Query, rsmi_test_refcount, rsmi_topo_get_link_weight,
     rsmi_compute_process_gpus_get, rsmi_compute_process_info_by_pid_get,
     rsmi_compute_process_info_by_device_get, MemoryOfNode, Answer, flags
<1>2. ASSUME NEW t \in Threads, NEW room, rsmi_event_notification_get(t, room)
      PROVE  /\ UNCHANGED <<refCount, devices, handle, open, inits, failed, unopened>>
             /\ misused' = misused
  BY <1>2 DEF rsmi_event_notification_get, flags
<1>3. ASSUME NEW t \in Threads,
             NextFile(t) \/ EndOfFile(t) \/ ReadClosed(t) \/ PollEnds(t)
               \/ GetReturns(t)
      PROVE  /\ UNCHANGED <<refCount, devices, handle, open, inits, failed, unopened>>
             /\ misused' = misused \/ misused' = TRUE
  BY <1>3 DEF NextFile, EndOfFile, ReadClosed, PollEnds, GetReturns,
     PassEnded, Getting
<1>4. ASSUME NEW s \in Systems, Repartition(s)
      PROVE  /\ UNCHANGED <<refCount, devices, handle, open, inits, failed, unopened>>
             /\ misused' = misused
  BY <1>4 DEF Repartition, flags
<1> QED
  BY <1>1, <1>2, <1>3, <1>4 DEF Still

-----------------------------------------------------------------------------
(* Every step keeps FdInv, and the files of others.                        *)

LEMMA FdStep ==
  ASSUME ~CallerReinits, FdInv, [Next]_vars
  PROVE  /\ FdInv'
         /\ \A f \in Fds : open[f].kind = "app" => open'[f].kind = "app"
<1>1. ASSUME FdInv' /\ (Gentle \/ open' = open)
      PROVE  /\ FdInv'
             /\ \A f \in Fds : open[f].kind = "app" => open'[f].kind = "app"
  BY <1>1 DEF Gentle
<1>2. ASSUME NEW t \in Threads, NEW all \in BOOLEAN, rsmi_init(t, all)
      PROVE  FdInv' /\ open' = open
  BY <1>2, SessionInit
<1>3. CASE Still
  BY <1>3, StillStays, StillStep DEF FdInv, TypeInv
<1>4. CASE UNCHANGED vars
  BY <1>4, StillStep DEF FdInv, TypeInv, vars, flags
<1>5. CASE Next
  BY <1>1, <1>2, <1>3, <1>5, SessionEnd, NotifyInitStep, MaskStep, StopStep,
     ReadStep, RaiseStep, AppStep DEF Next, Notify, Still
<1> QED
  BY <1>1, <1>3, <1>4, <1>5

LEMMA FdInit == Init => FdInv
<1> SUFFICES ASSUME Init PROVE FdInv
  OBVIOUS
<1>1. Free \in Desc({0})
  BY DEF Free, Desc, Kinds
<1>2. TypedIn({0})
  BY <1>1 DEF Init, TypedIn
<1>3. TypeInv
  BY <1>2 DEF Init, TypeInv, Numbers
<1>4. Started = {}
  BY DEF Init, Started
<1>5. HandleInv
  BY <1>4, FS_EmptySet DEF Init, HandleInv
<1>6. FilesInv
  BY DEF Init, FilesInv
<1> QED
  BY <1>3, <1>5, <1>6 DEF FdInv

LEMMA FdInvariant ==
  ASSUME ~CallerReinits
  PROVE  Spec => []FdInv
<1>1. FdInv /\ [Next]_vars => FdInv'
  BY FdStep
<1> QED
  BY <1>1, FdInit, PTL DEF Spec

\* No descriptor that other code of the process opened is closed by Cleanup or
\* by rsmi_event_notification_stop, as long as callers do not initialise the
\* library again after a notification that failed: they close by number the
\* file they opened, which nobody else can have.
THEOREM OthersKeepFiles ==
  ASSUME ~CallerReinits
  PROVE  Spec => FilesOfOthersStay
<1>1. FdInv /\ [Next]_vars =>
        [\A f \in Fds : open[f].kind = "app" => open'[f].kind = "app"]_vars
  BY FdStep
<1> QED
  BY <1>1, FdInvariant, PTL DEF Spec, FilesOfOthersStay

\* The handle of /dev/kfd is counted, and open exactly as long as it is.
THEOREM HandleIsCounted ==
  ASSUME ~CallerReinits
  PROVE  Spec => []HandleCounted
<1>1. FdInv => HandleCounted
  BY DEF FdInv, HandleInv, HandleCounted
<1> QED
  BY <1>1, FdInvariant, PTL

-----------------------------------------------------------------------------
(* Tallies.                                                                *)

LEMMA TallyMember ==
  ASSUME NEW f, NEW p
  PROVE  p \in Tally(f) <=> \E x \in DOMAIN f : \E k \in 1 .. f[x] : p = <<x, k>>
BY DEF Tally

LEMMA TallyPair ==
  ASSUME NEW f, NEW x, NEW k
  PROVE  <<x, k>> \in Tally(f) <=> x \in DOMAIN f /\ k \in 1 .. f[x]
BY TallyMember

LEMMA TallyUp ==
  ASSUME NEW S, NEW f \in [S -> Nat], NEW x \in S, IsFiniteSet(Tally(f)),
         NEW g, g = [f EXCEPT ![x] = f[x] + 1]
  PROVE  /\ IsFiniteSet(Tally(g))
         /\ Cardinality(Tally(g)) = Cardinality(Tally(f)) + 1
<1>1. <<x, f[x] + 1>> \notin Tally(f)
  BY TallyPair
<1>2. Tally(g) = Tally(f) \cup {<<x, f[x] + 1>>}
  <2>1. ASSUME NEW y \in S, NEW k
        PROVE  y \in DOMAIN g /\ k \in 1 .. g[y] <=>
                 (y \in DOMAIN f /\ k \in 1 .. f[y]) \/ (y = x /\ k = f[x] + 1)
    OBVIOUS
  <2>2. DOMAIN f = S /\ DOMAIN g = S
    OBVIOUS
  <2>3. ASSUME NEW p
        PROVE  p \in Tally(g) => p \in Tally(f) \cup {<<x, f[x] + 1>>}
    <3>1. SUFFICES ASSUME p \in Tally(g)
                   PROVE  p \in Tally(f) \cup {<<x, f[x] + 1>>}
      OBVIOUS
    <3>2. PICK y, k : y \in DOMAIN g /\ k \in 1 .. g[y] /\ p = <<y, k>>
      BY ONLY <3>1, TallyMember
    <3> QED
      BY <2>1, <2>2, <3>2, TallyPair
  <2>4. ASSUME NEW p
        PROVE  p \in Tally(f) \cup {<<x, f[x] + 1>>} => p \in Tally(g)
    <3>1. CASE p \in Tally(f)
      <4>1. PICK y, k : y \in S /\ k \in 1 .. f[y] /\ p = <<y, k>>
        BY <2>2, <3>1, TallyMember
      <4> QED
        BY <2>1, <2>2, <4>1, TallyPair
    <3>2. CASE p = <<x, f[x] + 1>>
      BY <2>1, <2>2, <3>2, TallyPair
    <3> QED
      BY <3>1, <3>2
  <2> QED
    BY <2>3, <2>4
<1>3. PICK T : T = Tally(f)
  OBVIOUS
<1>4. /\ IsFiniteSet(T \cup {<<x, f[x] + 1>>})
      /\ Cardinality(T \cup {<<x, f[x] + 1>>}) = Cardinality(T) + 1
  BY <1>1, <1>3, FS_AddElement
<1> QED
  BY <1>2, <1>3, <1>4

\* One number falls from n to m.
LEMMA TallyDown ==
  ASSUME NEW S, NEW f \in [S -> Nat], NEW g \in [S -> Nat], NEW x \in S,
         NEW m \in Nat, NEW n \in Nat, g[x] = m, f[x] = n, m <= n,
         \A y \in S \ {x} : g[y] = f[y],
         IsFiniteSet(Tally(f))
  PROVE  /\ IsFiniteSet(Tally(g))
         /\ Cardinality(Tally(g)) = Cardinality(Tally(f)) - (n - m)
<1>1. PICK D : D = {x} \X ((m + 1) .. n)
  OBVIOUS
<1>2. D \subseteq Tally(f)
  <2>1. ASSUME NEW k \in (m + 1) .. n
        PROVE  <<x, k>> \in Tally(f)
    BY TallyPair
  <2> QED
    BY <1>1, <2>1
<1>3. Tally(g) = Tally(f) \ D
  <2>1. ASSUME NEW y \in S, NEW k
        PROVE  y \in DOMAIN g /\ k \in 1 .. g[y] <=>
                 (y \in DOMAIN f /\ k \in 1 .. f[y])
                   /\ ~(y = x /\ k \in (m + 1) .. n)
    OBVIOUS
  <2>2. DOMAIN f = S /\ DOMAIN g = S
    OBVIOUS
  <2>3. ASSUME NEW y, NEW k
        PROVE  <<y, k>> \in D <=> y = x /\ k \in (m + 1) .. n
    BY <1>1
  <2>4. ASSUME NEW p \in Tally(g)
        PROVE  p \in Tally(f) \ D
    <3>1. PICK y, k : y \in DOMAIN g /\ k \in 1 .. g[y] /\ p = <<y, k>>
      BY ONLY p \in Tally(g), TallyMember
    <3> QED
      BY <2>1, <2>2, <2>3, <3>1, TallyPair
  <2>5. ASSUME NEW p \in Tally(f) \ D
        PROVE  p \in Tally(g)
    <3>1. PICK y, k : y \in DOMAIN f /\ k \in 1 .. f[y] /\ p = <<y, k>>
      BY ONLY p \in Tally(f) \ D, TallyMember
    <3> QED
      BY <2>1, <2>2, <2>3, <2>5, <3>1, TallyPair
  <2> QED
    BY <2>4, <2>5
<1>4. IsFiniteSet(D) /\ Cardinality(D) = n - m
  <2>1. /\ IsFiniteSet((m + 1) .. n)
        /\ Cardinality((m + 1) .. n) = IF m + 1 > n THEN 0 ELSE n - (m + 1) + 1
    BY FS_Interval
  <2>2. Cardinality((m + 1) .. n) = n - m
    BY <2>1
  <2>3. IsFiniteSet({x}) /\ Cardinality({x}) = 1
    BY FS_Singleton
  <2>4. /\ IsFiniteSet({x} \X ((m + 1) .. n))
        /\ Cardinality({x} \X ((m + 1) .. n)) =
             Cardinality({x}) * Cardinality((m + 1) .. n)
    BY <2>1, <2>3, FS_Product
  <2> QED
    BY <1>1, <2>2, <2>3, <2>4
<1>5. Tally(f) \cap D = D
  BY <1>2
<1>6. /\ IsFiniteSet(Tally(g))
      /\ Cardinality(Tally(g)) = Cardinality(Tally(f)) - Cardinality(Tally(f) \cap D)
  BY <1>3, FS_Difference
<1> QED
  BY <1>4, <1>5, <1>6

LEMMA TallyLess ==
  ASSUME NEW S, NEW f \in [S -> Nat], NEW x \in S, f[x] # 0,
         IsFiniteSet(Tally(f)), NEW g, g = [f EXCEPT ![x] = f[x] - 1]
  PROVE  /\ IsFiniteSet(Tally(g))
         /\ Cardinality(Tally(g)) = Cardinality(Tally(f)) - 1
<1>1. PICK m \in Nat, n \in Nat : f[x] = n /\ m = n - 1
  OBVIOUS
<1>2. g \in [S -> Nat] /\ g[x] = m /\ \A y \in S \ {x} : g[y] = f[y]
  BY <1>1
<1>3. m <= n /\ n - m = 1
  BY <1>1
<1>4. /\ IsFiniteSet(Tally(g))
      /\ Cardinality(Tally(g)) = Cardinality(Tally(f)) - (n - m)
  <2>1. PICK gg : gg = g
    OBVIOUS
  <2>2. gg \in [S -> Nat] /\ gg[x] = m /\ \A y \in S \ {x} : gg[y] = f[y]
    BY <1>2, <2>1
  <2>3. /\ IsFiniteSet(Tally(gg))
        /\ Cardinality(Tally(gg)) = Cardinality(Tally(f)) - (n - m)
    BY ONLY f \in [S -> Nat], x \in S, IsFiniteSet(Tally(f)), <1>1, <1>3,
            <2>2, TallyDown
  <2> QED
    BY <2>1, <2>3
<1> QED
  BY <1>3, <1>4

LEMMA TallyNone ==
  ASSUME NEW f, \A x \in DOMAIN f : f[x] = 0
  PROVE  Tally(f) = {}
<1>1. ASSUME NEW p \in Tally(f)
      PROVE  FALSE
  BY TallyMember
<1> QED
  BY <1>1

-----------------------------------------------------------------------------
(* The calls of the threads: those inside, and those that get events.      *)

CountInv ==
  /\ IsFiniteSet(Tally(inits))
  /\ refCount = Cardinality(Tally(inits))

\* Nobody is inside, or one thread only.
LEMMA Alone ==
  ASSUME CountInv, TypeInv, NEW t \in Threads
  PROVE  /\ refCount = 0 => inits[t] = 0
         /\ refCount = 1 /\ inits[t] > 0 =>
              inits[t] = 1 /\ \A u \in Threads \ {t} : inits[u] = 0
<1>1. PICK T : T = Tally(inits)
  OBVIOUS
<1>2. IsFiniteSet(T) /\ refCount = Cardinality(T)
  BY <1>1 DEF CountInv
<1>3. inits \in [Threads -> Nat]
  BY DEF TypeInv
<1>4. refCount = 0 => T = {}
  BY <1>2, FS_EmptySet
<1>5. refCount = 1 => \E p : T = {p}
  <2>1. ASSUME refCount = 1
        PROVE  \E p : T = {p}
    BY ONLY <1>2, <2>1, FS_Singleton
  <2> QED
    BY <2>1
<1>6. \A u \in Threads : \A k \in 1 .. inits[u] : <<u, k>> \in T
  BY <1>1, <1>3, TallyPair
<1>7. ASSUME refCount = 0
      PROVE  inits[t] = 0
  <2>1. inits[t] \in Nat /\ ~(1 \in 1 .. inits[t])
    BY <1>3, <1>4, <1>6, <1>7
  <2> QED
    BY <2>1
<1>8. ASSUME refCount = 1, inits[t] > 0
      PROVE  inits[t] = 1 /\ \A u \in Threads \ {t} : inits[u] = 0
  <2>1. inits[t] \in Nat
    BY <1>3
  <2>2. PICK p : T = {p}
    BY <1>5, <1>8
  <2>3. 1 \in 1 .. inits[t]
    BY <1>8, <2>1
  <2>4. p = <<t, 1>>
    BY <1>6, <2>2, <2>3
  <2>5. ~(2 \in 1 .. inits[t])
    BY <1>6, <2>2, <2>4
  <2>6. ASSUME NEW u \in Threads \ {t}
        PROVE  inits[u] = 0
    <3>1. inits[u] \in Nat /\ ~(1 \in 1 .. inits[u])
      BY <1>3, <1>6, <2>2, <2>4
    <3> QED
      BY <3>1
  <2> QED
    BY <2>1, <2>5, <2>6, <1>8
<1> QED
  BY <1>7, <1>8

LEMMA CountStep ==
  ASSUME FdInv, CountInv, [Next]_vars
  PROVE  CountInv'
<1>1. inits \in [Threads -> Nat] /\ refCount \in Nat
  BY DEF FdInv, TypeInv
<1>2. CASE UNCHANGED <<refCount, inits>>
  BY <1>2 DEF CountInv, Tally
<1>3. ASSUME NEW t \in Threads, NEW all \in BOOLEAN, rsmi_init(t, all)
      PROVE  CountInv'
  <2>1. CASE refCount' = refCount + 1 /\ inits' = [inits EXCEPT ![t] = inits[t] + 1]
    <3>1. PICK f, g : f = inits /\ g = inits'
      OBVIOUS
    <3>2. /\ f \in [Threads -> Nat] /\ g = [f EXCEPT ![t] = f[t] + 1]
          /\ IsFiniteSet(Tally(f)) /\ refCount = Cardinality(Tally(f))
      BY <1>1, <2>1, <3>1 DEF CountInv
    <3>3. /\ IsFiniteSet(Tally(g))
          /\ Cardinality(Tally(g)) = Cardinality(Tally(f)) + 1
      BY <3>2, TallyUp
    <3> QED
      BY <2>1, <3>1, <3>2, <3>3 DEF CountInv, Tally
  <2> QED
    BY <1>2, <1>3, <2>1 DEF rsmi_init, InitializeThrows
<1>4. ASSUME NEW t \in Threads, rsmi_shut_down(t)
      PROVE  CountInv'
  <2>1. CASE /\ inits[t] > 0 /\ refCount' = refCount - 1
             /\ inits' = [inits EXCEPT ![t] = inits[t] - 1]
    <3>1. PICK f, g : f = inits /\ g = inits'
      OBVIOUS
    <3>2. /\ f \in [Threads -> Nat] /\ g = [f EXCEPT ![t] = f[t] - 1]
          /\ IsFiniteSet(Tally(f)) /\ refCount = Cardinality(Tally(f))
      BY <1>1, <2>1, <3>1 DEF CountInv
    <3>3. f[t] # 0
      BY <1>1, <2>1, <3>1
    <3>4. /\ IsFiniteSet(Tally(g))
          /\ Cardinality(Tally(g)) = Cardinality(Tally(f)) - 1
      BY <3>2, <3>3, TallyLess
    <3> QED
      BY <2>1, <3>1, <3>2, <3>4 DEF CountInv
  <2> QED
    BY <1>2, <1>4, <2>1 DEF rsmi_shut_down
<1>5. CASE Still
  BY <1>2, <1>5, StillStays
<1>6. CASE UNCHANGED vars
  BY <1>2, <1>6 DEF vars
<1>7. ASSUME NEW t \in Threads, NEW i \in DOMAIN devices,
             \/ rsmi_event_notification_init(t, i)
             \/ rsmi_event_notification_mask_set(t, i)
             \/ rsmi_event_notification_stop(t, i)
      PROVE  UNCHANGED <<refCount, inits>>
  BY <1>7 DEF rsmi_event_notification_init, rsmi_event_notification_mask_set,
     rsmi_event_notification_stop
<1>8. ASSUME NEW t \in Threads, ReadEvent(t)
      PROVE  UNCHANGED <<refCount, inits>>
  BY <1>8 DEF ReadEvent, Getting
<1>9. ASSUME NEW f \in Fds, Raise(f) \/ AppOpens
      PROVE  UNCHANGED <<refCount, inits>>
  BY <1>9 DEF Raise, AppOpens
<1>10. CASE Next
  <2>1. CASE AppOpens
    BY <1>2, <2>1 DEF AppOpens
  <2> QED
    BY <1>2, <1>3, <1>4, <1>5, <1>7, <1>8, <1>9, <1>10, <2>1
    DEF Next, Notify, Still
<1> QED
  BY <1>6, <1>10

-----------------------------------------------------------------------------
(* The calls of rsmi_event_notification_get.  Only one thread makes them,  *)
(* and with it the calls that prepare and stop.                            *)

StartedOf(D) == {i \in DOMAIN D : D[i].fd # NoFile}
ItemsOf(D) == {<<i, D[i].gpu>> : i \in DOMAIN D}
Fits(g, D, n) ==
  /\ g = [room |-> g.room, items |-> g.items, fds |-> g.fds, left |-> g.left,
          dev |-> g.dev, file |-> g.file, polled |-> g.polled]
  /\ n = 0 => g.room = 0 /\ g.items = <<>>
  /\ g.items \in Seq(ItemsOf(D))
  /\ g.room # 0 =>
       /\ DOMAIN g.fds \subseteq StartedOf(D) /\ g.left \subseteq StartedOf(D)
       /\ g.dev # 0 => g.dev \in StartedOf(D) /\ g.file = D[g.dev].file
GetInv ==
  /\ get = [t \in Threads |-> get[t]]
  /\ \A t \in Threads : /\ Fits(get[t], devices, inits[t])
                        /\ get[t].room # 0 => t \in Listeners

\* The updates of the steps, on the record of a call.
LEMMA RecordEdits ==
  ASSUME NEW g, NEW room, NEW items, NEW fds, NEW left, NEW dev, NEW file,
         NEW polled,
         g = [room |-> room, items |-> items, fds |-> fds, left |-> left,
              dev |-> dev, file |-> file, polled |-> polled],
         NEW x, NEW y, NEW z
  PROVE  /\ [g EXCEPT !.dev = x] =
              [room |-> room, items |-> items, fds |-> fds, left |-> left,
               dev |-> x, file |-> file, polled |-> polled]
         /\ [g EXCEPT !.items = x] =
              [room |-> room, items |-> x, fds |-> fds, left |-> left,
               dev |-> dev, file |-> file, polled |-> polled]
         /\ [g EXCEPT !.polled = x, !.left = y] =
              [room |-> room, items |-> items, fds |-> fds, left |-> y,
               dev |-> dev, file |-> file, polled |-> x]
         /\ [g EXCEPT !.dev = x, !.file = y, !.left = z] =
              [room |-> room, items |-> items, fds |-> fds, left |-> z,
               dev |-> x, file |-> y, polled |-> polled]
         /\ [g EXCEPT !.items = x, !.dev = y, !.left = z] =
              [room |-> room, items |-> x, fds |-> fds, left |-> z,
               dev |-> y, file |-> file, polled |-> polled]
<1>1. [g EXCEPT !.dev = x] =
       [room |-> room, items |-> items, fds |-> fds, left |-> left,
        dev |-> x, file |-> file, polled |-> polled]
  OBVIOUS
<1>2. [g EXCEPT !.items = x] =
       [room |-> room, items |-> x, fds |-> fds, left |-> left,
        dev |-> dev, file |-> file, polled |-> polled]
  OBVIOUS
<1>3. [g EXCEPT !.polled = x, !.left = y] =
       [room |-> room, items |-> items, fds |-> fds, left |-> y,
        dev |-> dev, file |-> file, polled |-> x]
  <2>1. PICK h1 : h1 = [g EXCEPT !.polled = x]
    OBVIOUS
  <2>2. h1 = [room |-> room, items |-> items, fds |-> fds, left |-> left,
           dev |-> dev, file |-> file, polled |-> x]
    BY ONLY <2>1, g = [room |-> room, items |-> items, fds |-> fds, left |-> left,
                  dev |-> dev, file |-> file, polled |-> polled]
  <2>3. PICK h2 : h2 = [h1 EXCEPT !.left = y]
    OBVIOUS
  <2>4. h2 = [room |-> room, items |-> items, fds |-> fds, left |-> y,
           dev |-> dev, file |-> file, polled |-> x]
    BY ONLY <2>3, <2>2
  <2> QED
    BY <2>1, <2>2, <2>3, <2>4
<1>4. [g EXCEPT !.dev = x, !.file = y, !.left = z] =
       [room |-> room, items |-> items, fds |-> fds, left |-> z,
        dev |-> x, file |-> y, polled |-> polled]
  <2>1. PICK h1 : h1 = [g EXCEPT !.dev = x]
    OBVIOUS
  <2>2. h1 = [room |-> room, items |-> items, fds |-> fds, left |-> left,
           dev |-> x, file |-> file, polled |-> polled]
    BY ONLY <2>1, g = [room |-> room, items |-> items, fds |-> fds, left |-> left,
                  dev |-> dev, file |-> file, polled |-> polled]
  <2>3. PICK h2 : h2 = [h1 EXCEPT !.file = y]
    OBVIOUS
  <2>4. h2 = [room |-> room, items |-> items, fds |-> fds, left |-> left,
           dev |-> x, file |-> y, polled |-> polled]
    BY ONLY <2>3, <2>2
  <2>5. PICK h3 : h3 = [h2 EXCEPT !.left = z]
    OBVIOUS
  <2>6. h3 = [room |-> room, items |-> items, fds |-> fds, left |-> z,
           dev |-> x, file |-> y, polled |-> polled]
    BY ONLY <2>5, <2>4
  <2> QED
    BY <2>1, <2>2, <2>3, <2>4, <2>5, <2>6
<1>5. [g EXCEPT !.items = x, !.dev = y, !.left = z] =
       [room |-> room, items |-> x, fds |-> fds, left |-> z,
        dev |-> y, file |-> file, polled |-> polled]
  <2>1. PICK h1 : h1 = [g EXCEPT !.items = x]
    OBVIOUS
  <2>2. h1 = [room |-> room, items |-> x, fds |-> fds, left |-> left,
           dev |-> dev, file |-> file, polled |-> polled]
    BY ONLY <2>1, g = [room |-> room, items |-> items, fds |-> fds, left |-> left,
                  dev |-> dev, file |-> file, polled |-> polled]
  <2>3. PICK h2 : h2 = [h1 EXCEPT !.dev = y]
    OBVIOUS
  <2>4. h2 = [room |-> room, items |-> x, fds |-> fds, left |-> left,
           dev |-> y, file |-> file, polled |-> polled]
    BY ONLY <2>3, <2>2
  <2>5. PICK h3 : h3 = [h2 EXCEPT !.left = z]
    OBVIOUS
  <2>6. h3 = [room |-> room, items |-> x, fds |-> fds, left |-> z,
           dev |-> y, file |-> file, polled |-> polled]
    BY ONLY <2>5, <2>4
  <2> QED
    BY <2>1, <2>2, <2>3, <2>4, <2>5, <2>6
<1> QED
  BY <1>1, <1>2, <1>3, <1>4, <1>5

LEMMA FitsIdle ==
  ASSUME NEW D, NEW n
  PROVE  Fits(Idle, D, n) /\ Idle.room = 0
<1>1. Idle = [room |-> 0, items |-> <<>>, fds |-> <<>>, left |-> {}, dev |-> 0,
              file |-> NoFile, polled |-> FALSE]
  BY DEF Idle
<1>2. <<>> \in Seq(ItemsOf(D))
  OBVIOUS
<1> QED
  BY <1>1, <1>2 DEF Fits

\* Only the rooms, the items and the devices matter when nobody calls.
LEMMA FitsAnew ==
  ASSUME NEW g, NEW D, NEW E, NEW n, NEW m, Fits(g, D, n), n = 0
  PROVE  Fits(g, E, m)
<1>1. g.room = 0 /\ g.items = <<>>
  BY DEF Fits
<1>2. g.items \in Seq(ItemsOf(E))
  BY <1>1
<1> QED
  BY <1>1, <1>2 DEF Fits

LEMMA FitsQuiet ==
  ASSUME NEW g, NEW D, NEW E, NEW n, Fits(g, D, n), g.room = 0,
         DOMAIN E = DOMAIN D, \A i \in DOMAIN D : E[i].gpu = D[i].gpu
  PROVE  Fits(g, E, n)
<1>1. ItemsOf(E) = ItemsOf(D)
  BY DEF ItemsOf
<1> QED
  BY <1>1 DEF Fits

LEMMA FitsMore ==
  ASSUME NEW g, NEW D, NEW n, NEW m, Fits(g, D, n), m = 0 => n = 0
  PROVE  Fits(g, D, m)
BY DEF Fits

\* Only the call of t changes, and stays one.
LEMMA GetChanges ==
  ASSUME GetInv, NEW t \in Threads, UNCHANGED <<devices, inits>>,
         NEW g, get' = [get EXCEPT ![t] = g],
         Fits(g, devices, inits[t]), g.room # 0 => t \in Listeners
  PROVE  GetInv'
<1>1. get' = [u \in Threads |-> get'[u]] /\ get'[t] = g
  BY DEF GetInv
<1>2. \A u \in Threads : /\ Fits(get'[u], devices, inits[u])
                         /\ get'[u].room # 0 => u \in Listeners
  BY <1>1 DEF GetInv
<1>3. PICK h, D, n : h = get' /\ D = devices /\ n = inits
  OBVIOUS
<1>4. \A u \in Threads : Fits(h[u], D, n[u]) /\ (h[u].room # 0 => u \in Listeners)
  BY <1>2, <1>3
<1>5. h = get' /\ D = devices' /\ n = inits'
  BY <1>3
<1> QED
  BY <1>1, <1>4, <1>5 DEF GetInv

\* Where a call goes on from g: the same room, and what it reads next.
LEMMA FitsOn ==
  ASSUME NEW g, NEW D, NEW n, Fits(g, D, n), g.room # 0,
         NEW items \in Seq(ItemsOf(D)), NEW left \in SUBSET StartedOf(D),
         NEW dev, NEW file, NEW polled,
         dev # 0 => dev \in StartedOf(D) /\ file = D[dev].file,
         NEW h,
         h = [room |-> g.room, items |-> items, fds |-> g.fds, left |-> left,
              dev |-> dev, file |-> file, polled |-> polled]
  PROVE  Fits(h, D, n)
BY DEF Fits

LEMMA FitsEnds ==
  ASSUME NEW g, NEW D, NEW n, Fits(g, D, n)
  PROVE  /\ Fits([Idle EXCEPT !.items = g.items], D, n)
         /\ [Idle EXCEPT !.items = g.items].room = 0
<1>1. [Idle EXCEPT !.items = g.items] =
        [room |-> 0, items |-> g.items, fds |-> <<>>, left |-> {}, dev |-> 0,
         file |-> NoFile, polled |-> FALSE]
  <2>1. PICK i, zero, nil, none, at, no :
          i = Idle /\ zero = 0 /\ nil = <<>> /\ none = {} /\ at = NoFile
          /\ no = FALSE
    OBVIOUS
  <2>2. i = [room |-> zero, items |-> nil, fds |-> nil, left |-> none,
             dev |-> zero, file |-> at, polled |-> no]
    BY <2>1 DEF Idle
  <2>3. [i EXCEPT !.items = g.items] =
          [room |-> zero, items |-> g.items, fds |-> nil, left |-> none,
           dev |-> zero, file |-> at, polled |-> no]
    BY ONLY <2>2
  <2> QED
    BY <2>1, <2>3
<1> QED
  BY <1>1 DEF Fits

LEMMA GetStarts ==
  ASSUME GetInv, NEW t \in Listeners, NEW room \in 1 .. MaxRoom,
         rsmi_event_notification_get(t, room)
  PROVE  GetInv'
<1>1. t \in Threads
  BY SessionAssumption DEF SessionAssumption
<1>2. PICK g, fds :
        /\ fds = [i \in Started |-> devices[i].fd]
        /\ g = [room |-> room, items |-> <<>>, fds |-> fds, left |-> Started,
                dev |-> 0, file |-> NoFile, polled |-> FALSE]
  OBVIOUS
<1>3. /\ get' = [get EXCEPT ![t] = g] /\ UNCHANGED <<devices, inits>>
      /\ inits[t] > 0
  <2>1. PICK i, zero, nil, none, at, no :
          i = Idle /\ zero = 0 /\ nil = <<>> /\ none = {} /\ at = NoFile
          /\ no = FALSE
    OBVIOUS
  <2>2. i = [room |-> zero, items |-> nil, fds |-> nil, left |-> none,
             dev |-> zero, file |-> at, polled |-> no]
    BY <2>1 DEF Idle
  <2>3. [i EXCEPT !.room = room, !.fds = fds, !.left = Started] = g
    <3>1. [i EXCEPT !.room = room, !.fds = fds, !.left = Started] =
            [room |-> room, items |-> nil, fds |-> fds, left |-> Started,
             dev |-> zero, file |-> at, polled |-> no]
      <4>1. PICK x, z : x = room /\ z = Started
        OBVIOUS
      <4>2. [i EXCEPT !.room = x, !.fds = fds, !.left = z] =
              [room |-> x, items |-> nil, fds |-> fds, left |-> z,
               dev |-> zero, file |-> at, polled |-> no]
        <5>1. PICK h1 : h1 = [i EXCEPT !.room = x]
          OBVIOUS
        <5>2. h1 = [room |-> x, items |-> nil, fds |-> nil, left |-> none,
                    dev |-> zero, file |-> at, polled |-> no]
          BY ONLY <2>2, <5>1
        <5>3. PICK h2 : h2 = [h1 EXCEPT !.fds = fds]
          OBVIOUS
        <5>4. h2 = [room |-> x, items |-> nil, fds |-> fds, left |-> none,
                    dev |-> zero, file |-> at, polled |-> no]
          BY ONLY <5>2, <5>3
        <5>5. PICK h3 : h3 = [h2 EXCEPT !.left = z]
          OBVIOUS
        <5>6. h3 = [room |-> x, items |-> nil, fds |-> fds, left |-> z,
                    dev |-> zero, file |-> at, polled |-> no]
          BY ONLY <5>4, <5>5
        <5> QED
          BY <5>1, <5>3, <5>5, <5>6
      <4> QED
        BY <4>1, <4>2
    <3> QED
      BY <1>2, <2>1, <3>1
  <2> QED
    BY <1>2, <2>1, <2>3 DEF rsmi_event_notification_get, Inside
<1>4. Fits(g, devices, inits[t])
  <2>1. DOMAIN fds = Started /\ Started = StartedOf(devices)
    BY <1>2 DEF Started, StartedOf
  <2>2. inits[t] # 0
    BY <1>3
  <2>3. <<>> \in Seq(ItemsOf(devices))
    OBVIOUS
  <2> QED
    BY <1>2, <2>1, <2>2, <2>3 DEF Fits
<1> QED
  BY <1>1, <1>3, <1>4, GetChanges

LEMMA GetGoesOn ==
  ASSUME FdInv, GetInv, NEW t \in Threads,
         \/ NextFile(t) \/ ReadEvent(t) \/ EndOfFile(t) \/ ReadClosed(t)
         \/ PollEnds(t) \/ GetReturns(t)
  PROVE  GetInv'
<1>1. UNCHANGED <<devices, inits>> /\ get[t].room # 0
  BY DEF NextFile, ReadEvent, EndOfFile, ReadClosed, PollEnds, GetReturns,
     PassEnded, Getting
<1>2. PICK g, D, n : g = get[t] /\ D = devices /\ n = inits[t]
  OBVIOUS
<1>3. /\ Fits(g, D, n) /\ g.room # 0 /\ t \in Listeners
      /\ get \in [Threads -> {get[u] : u \in Threads}]
  BY <1>1, <1>2 DEF GetInv
<1>4. /\ g = [room |-> g.room, items |-> g.items, fds |-> g.fds, left |-> g.left,
              dev |-> g.dev, file |-> g.file, polled |-> g.polled]
      /\ g.items \in Seq(ItemsOf(D))
      /\ DOMAIN g.fds \subseteq StartedOf(D) /\ g.left \subseteq StartedOf(D)
      /\ g.dev # 0 => g.dev \in StartedOf(D) /\ g.file = D[g.dev].file
  BY <1>3 DEF Fits
<1>5. ASSUME NEW items \in Seq(ItemsOf(D)), NEW left \in SUBSET StartedOf(D),
             NEW dev, NEW file, NEW polled,
             dev # 0 => dev \in StartedOf(D) /\ file = D[dev].file,
             get' = [get EXCEPT ![t] =
                       [room |-> g.room, items |-> items, fds |-> g.fds,
                        left |-> left, dev |-> dev, file |-> file,
                        polled |-> polled]]
      PROVE  GetInv'
  <2>1. PICK h : h = [room |-> g.room, items |-> items, fds |-> g.fds,
                      left |-> left, dev |-> dev, file |-> file,
                      polled |-> polled]
    OBVIOUS
  <2>2. Fits(h, D, n)
    BY <1>3, <1>5, <2>1, FitsOn
  <2>3. get' = [get EXCEPT ![t] = h]
    BY <1>5, <2>1
  <2> QED
    BY <1>1, <1>2, <1>3, <2>2, <2>3, GetChanges
<1>20. PICK room, items, fds, left, dev, file, polled :
        /\ room = g.room /\ items = g.items /\ fds = g.fds /\ left = g.left
        /\ dev = g.dev /\ file = g.file /\ polled = g.polled
  OBVIOUS
<1>21. g = [room |-> room, items |-> items, fds |-> fds, left |-> left,
            dev |-> dev, file |-> file, polled |-> polled]
  BY <1>4, <1>20
<1>6. CASE NextFile(t)
  <2>1. PICK i : /\ i \in g.left
                 /\ get' = [get EXCEPT ![t] =
                      [room |-> g.room, items |-> g.items, fds |-> g.fds,
                       left |-> g.left \ {i}, dev |-> i, file |-> D[i].file,
                       polled |-> g.polled]]
    <3>1. PICK i \in LowestOf(get[t].left) :
            get' = [get EXCEPT ![t].dev = i, ![t].file = devices[i].file,
                               ![t].left = @ \ {i}]
      BY <1>6 DEF NextFile
    <3>2. i \in g.left
      BY <1>2, <3>1 DEF LowestOf
    <3>3. get' = [get EXCEPT ![t] =
                    [room |-> g.room, items |-> g.items, fds |-> g.fds,
                     left |-> g.left \ {i}, dev |-> i, file |-> D[i].file,
                     polled |-> g.polled]]
      <4>1. PICK h : h = [g EXCEPT !.dev = i, !.file = D[i].file,
                                   !.left = g.left \ {i}]
        OBVIOUS
      <4>2. h = [room |-> room, items |-> items, fds |-> fds,
                 left |-> g.left \ {i}, dev |-> i, file |-> D[i].file,
                 polled |-> polled]
        BY <1>21, <4>1, RecordEdits
      <4>3. get' = [get EXCEPT ![t] = h]
        BY <1>2, <3>1, <4>1
      <4> QED
        BY <1>20, <4>2, <4>3
    <3> QED
      BY <3>2, <3>3
  <2>2. i \in StartedOf(D) /\ g.left \ {i} \in SUBSET StartedOf(D)
    BY <1>4, <2>1
  <2> QED
    BY <1>4, <1>5, <2>1, <2>2
<1>7. CASE ReadEvent(t)
  <2>1. PICK e, here, rest :
          /\ e = <<g.dev, open[g.file].gpu>>
          /\ here \in {0, g.dev} /\ rest \in {{}, g.left}
          /\ get' = [get EXCEPT ![t] =
                      [room |-> g.room, items |-> Append(g.items, e),
                       fds |-> g.fds, left |-> rest, dev |-> here,
                       file |-> g.file, polled |-> g.polled]]
          /\ IsNotification(g.file) /\ g.dev # 0
    <3>1. PICK full : full = (Len(g.items) + 1 = g.room)
      OBVIOUS
    <3>2. get' = [get EXCEPT ![t].items = Append(@, <<g.dev, open[g.file].gpu>>),
                             ![t].dev = IF full THEN 0 ELSE @,
                             ![t].left = IF full THEN {} ELSE @]
      BY <1>2, <1>7, <3>1 DEF ReadEvent, Item
    <3>3. get' = [get EXCEPT ![t] =
                    [room |-> g.room,
                     items |-> Append(g.items, <<g.dev, open[g.file].gpu>>),
                     fds |-> g.fds, left |-> IF full THEN {} ELSE g.left,
                     dev |-> IF full THEN 0 ELSE g.dev,
                     file |-> g.file, polled |-> g.polled]]
      <4>1. PICK x, y, z : /\ x = Append(g.items, <<g.dev, open[g.file].gpu>>)
                           /\ y = IF full THEN 0 ELSE g.dev
                           /\ z = IF full THEN {} ELSE g.left
        OBVIOUS
      <4>2. PICK h : h = [g EXCEPT !.items = x, !.dev = y, !.left = z]
        OBVIOUS
      <4>3. h = [room |-> room, items |-> x, fds |-> fds, left |-> z,
                 dev |-> y, file |-> file, polled |-> polled]
        BY <1>21, <4>2, RecordEdits
      <4>4. get' = [get EXCEPT ![t] = h]
        BY <1>2, <3>2, <4>1, <4>2
      <4> QED
        BY <1>20, <4>1, <4>3, <4>4
    <3>4. IsNotification(g.file) /\ g.dev # 0
      BY <1>2, <1>7 DEF ReadEvent
    <3>5. PICK here, rest : /\ here = IF full THEN 0 ELSE g.dev
                            /\ rest = IF full THEN {} ELSE g.left
      OBVIOUS
    <3> QED
      BY <3>3, <3>4, <3>5
  <2>2. g.dev \in StartedOf(D) /\ g.file = D[g.dev].file /\ g.dev \in DOMAIN D
    BY <1>4, <2>1 DEF StartedOf
  <2>3. open[g.file].gpu = D[g.dev].gpu
    <3>1. g.file # NoFile
      BY <2>1, FdFacts DEF IsNotification
    <3> QED
      BY <1>2, <2>2, <3>1 DEF FdInv, FilesInv
  <2>4. e \in ItemsOf(D)
    BY <2>1, <2>2, <2>3 DEF ItemsOf
  <2>5. Append(g.items, e) \in Seq(ItemsOf(D))
    BY <1>4, <2>4
  <2>6. rest \in SUBSET StartedOf(D)
    BY <1>4, <2>1
  <2>7. here # 0 => here \in StartedOf(D) /\ g.file = D[here].file
    BY <2>1, <2>2
  <2> QED
    BY <1>5, <2>1, <2>5, <2>6, <2>7
<1>8. CASE EndOfFile(t)
  <2>1. get' = [get EXCEPT ![t] =
                  [room |-> g.room, items |-> g.items, fds |-> g.fds,
                   left |-> g.left, dev |-> 0, file |-> g.file,
                   polled |-> g.polled]]
    <3>1. PICK h : h = [g EXCEPT !.dev = 0]
      OBVIOUS
    <3>2. h = [room |-> room, items |-> items, fds |-> fds, left |-> left,
               dev |-> 0, file |-> file, polled |-> polled]
      BY <1>21, <3>1, RecordEdits
    <3>3. get' = [get EXCEPT ![t] = h]
      BY <1>2, <1>8, <3>1 DEF EndOfFile
    <3> QED
      BY <1>20, <3>2, <3>3
  <2> QED
    BY <1>4, <1>5, <2>1
<1>9. CASE PollEnds(t)
  <2>1. PICK ready : /\ ready \subseteq DOMAIN g.fds
                     /\ get' = [get EXCEPT ![t].polled = TRUE, ![t].left = ready]
    BY <1>2, <1>9 DEF PollEnds
  <2>2. get' = [get EXCEPT ![t] =
                  [room |-> g.room, items |-> g.items, fds |-> g.fds,
                   left |-> ready, dev |-> g.dev, file |-> g.file,
                   polled |-> TRUE]]
    <3>1. PICK yes : yes = TRUE
      OBVIOUS
    <3>2. PICK h : h = [g EXCEPT !.polled = yes, !.left = ready]
      OBVIOUS
    <3>3. h = [room |-> room, items |-> items, fds |-> fds, left |-> ready,
               dev |-> dev, file |-> file, polled |-> yes]
      BY <1>21, <3>2, RecordEdits
    <3>4. get' = [get EXCEPT ![t] = h]
      BY <1>2, <2>1, <3>1, <3>2
    <3> QED
      BY <1>20, <3>1, <3>3, <3>4
  <2>3. ready \in SUBSET StartedOf(D)
    BY <1>4, <2>1
  <2> QED
    BY <1>4, <1>5, <2>2, <2>3
<1>10. CASE ReadClosed(t) \/ GetReturns(t)
  <2>1. PICK h : h = [Idle EXCEPT !.items = g.items]
    OBVIOUS
  <2>2. get' = [get EXCEPT ![t] = h]
    BY <1>2, <1>10, <2>1 DEF ReadClosed, GetReturns
  <2>3. Fits(h, D, n) /\ h.room = 0
    BY <1>3, <2>1, FitsEnds
  <2> QED
    BY <1>1, <1>2, <2>2, <2>3, GetChanges
<1> QED
  BY <1>6, <1>7, <1>8, <1>9, <1>10

LEMMA GetFrame ==
  ASSUME GetInv, UNCHANGED <<devices, inits, get>>
  PROVE  GetInv'
<1>1. PICK h, D, n : h = get /\ D = devices /\ n = inits
  OBVIOUS
<1>2. /\ h = [t \in Threads |-> h[t]]
      /\ \A t \in Threads : /\ Fits(h[t], D, n[t])
                            /\ h[t].room # 0 => t \in Listeners
  BY <1>1 DEF GetInv
<1>3. h = get' /\ D = devices' /\ n = inits'
  BY <1>1
<1> QED
  BY <1>2, <1>3 DEF GetInv

LEMMA GetInit ==
  ASSUME FdInv, CountInv, GetInv, NEW t \in Threads, NEW all \in BOOLEAN,
         rsmi_init(t, all)
  PROVE  GetInv'
<1>1. PICK h, D, E, n, m : /\ h = get /\ D = devices /\ E = devices'
                           /\ n = inits /\ m = inits'
  OBVIOUS
<1>2. /\ h = [u \in Threads |-> h[u]]
      /\ \A u \in Threads : /\ Fits(h[u], D, n[u])
                            /\ h[u].room # 0 => u \in Listeners
  BY <1>1 DEF GetInv
<1>3. get' = h
  BY <1>1 DEF rsmi_init
<1>4. n \in [Threads -> Nat]
  BY <1>1 DEF FdInv, TypeInv
<1>5. m = n \/ m = [n EXCEPT ![t] = n[t] + 1]
  BY <1>1 DEF rsmi_init, InitializeThrows
<1>6. \A u \in Threads : m[u] = 0 => n[u] = 0
  BY <1>4, <1>5
<1>7. E = D \/ \A u \in Threads : n[u] = 0
  BY <1>1, Alone DEF FdInv, rsmi_init
<1>8. \A u \in Threads : Fits(h[u], E, m[u])
  BY <1>2, <1>6, <1>7, FitsAnew, FitsMore
<1> QED
  BY <1>1, <1>2, <1>3, <1>8 DEF GetInv

LEMMA GetShutDown ==
  ASSUME FdInv, CountInv, GetInv, NEW t \in Threads, rsmi_shut_down(t)
  PROVE  GetInv'
<1>1. PICK h, g, D, E, n, m : /\ h = get /\ g = get' /\ D = devices
                              /\ E = devices' /\ n = inits /\ m = inits'
  OBVIOUS
<1>2. /\ h = [u \in Threads |-> h[u]]
      /\ \A u \in Threads : /\ Fits(h[u], D, n[u])
                            /\ h[u].room # 0 => u \in Listeners
  BY <1>1 DEF GetInv
<1>3. g = [h EXCEPT ![t] = Idle]
  BY <1>1 DEF rsmi_shut_down
<1>4. n \in [Threads -> Nat]
  BY <1>1 DEF FdInv, TypeInv
<1>5. m = n \/ m = [n EXCEPT ![t] = n[t] - 1]
  BY <1>1 DEF rsmi_shut_down
<1>6. \A u \in Threads \ {t} : m[u] = n[u] /\ g[u] = h[u]
  BY <1>2, <1>3, <1>4, <1>5
<1>7. E = D \/ \A u \in Threads \ {t} : n[u] = 0
  <2>1. E = D \/ (refCount = 1 /\ inits[t] > 0)
    BY <1>1 DEF rsmi_shut_down
  <2> QED
    BY <1>1, <2>1, Alone DEF FdInv
<1>8. \A u \in Threads \ {t} : Fits(g[u], E, m[u])
  BY <1>2, <1>6, <1>7, FitsAnew
<1>9. g[t] = Idle /\ g = [u \in Threads |-> g[u]]
  BY <1>2, <1>3
<1>10. Fits(g[t], E, m[t]) /\ g[t].room = 0
  BY <1>9, FitsIdle
<1>11. \A u \in Threads : /\ Fits(g[u], E, m[u])
                          /\ g[u].room # 0 => u \in Listeners
  BY <1>2, <1>6, <1>8, <1>10
<1> QED
  BY <1>1, <1>9, <1>11 DEF GetInv

\* A device that starts or stops its notifications is the same GPU.
LEMMA SameGpus ==
  ASSUME FdInv, NEW t \in Threads, NEW i \in DOMAIN devices,
         rsmi_event_notification_init(t, i) \/ rsmi_event_notification_stop(t, i)
  PROVE  /\ DOMAIN devices' = DOMAIN devices
         /\ \A j \in DOMAIN devices : /\ devices'[j].bdf = devices[j].bdf
                                      /\ devices'[j].gpu = devices[j].gpu
<1>1. PICK D, E : D = devices /\ E = devices'
  OBVIOUS
<1>2. PICK X : TypedIn(X)
  BY DEF FdInv, TypeInv
<1>3. D = [j \in DOMAIN D |-> D[j]] /\ D[i] \in Dev(X) /\ i \in DOMAIN D
  BY <1>1, <1>2 DEF TypedIn
<1>4. ASSUME NEW fd, NEW file,
             \/ E = D
             \/ E = [D EXCEPT ![i].fd = fd]
             \/ E = [D EXCEPT ![i].fd = fd, ![i].file = file]
      PROVE  /\ DOMAIN E = DOMAIN D
             /\ \A j \in DOMAIN D : E[j].bdf = D[j].bdf /\ E[j].gpu = D[j].gpu
  BY <1>3, <1>4 DEF Dev
<1>5. CASE rsmi_event_notification_stop(t, i)
  BY <1>1, <1>4, <1>5 DEF rsmi_event_notification_stop, Stopped
<1>6. CASE rsmi_event_notification_init(t, i)
  <2>1. CASE devices' = devices
    BY <1>1, <2>1
  <2>2. ASSUME devices' # devices
        PROVE  \E fd : \/ E = [D EXCEPT ![i].fd = fd]
                       \/ E = [D EXCEPT ![i].fd = fd, ![i].file = fd]
    <3>1. PICK H \in Handles : Prepares(i, H[1], H[2])
      BY <1>6, <2>2, Zenon DEF rsmi_event_notification_init, Prepares
    <3> QED
      BY <1>1, <2>2, <3>1 DEF Prepares
  <2> QED
    BY <1>1, <1>4, <2>1, <2>2
<1> QED
  BY <1>5, <1>6

LEMMA GetPrepares ==
  ASSUME OneListener, FdInv, GetInv, NEW t \in Listeners,
         NEW i \in DOMAIN devices,
         rsmi_event_notification_init(t, i) \/ rsmi_event_notification_stop(t, i)
  PROVE  GetInv'
<1>1. PICK h, D, E, n : h = get /\ D = devices /\ E = devices' /\ n = inits
  OBVIOUS
<1>2. /\ h = [u \in Threads |-> h[u]]
      /\ \A u \in Threads : /\ Fits(h[u], D, n[u])
                            /\ h[u].room # 0 => u \in Listeners
  BY <1>1 DEF GetInv
<1>3. get' = h /\ inits' = n /\ h[t].room = 0
  BY <1>1 DEF rsmi_event_notification_init, rsmi_event_notification_stop,
     Inside, Calls
<1>4. \A u \in Threads : h[u].room = 0
  BY <1>2, <1>3 DEF OneListener
<1>5. DOMAIN E = DOMAIN D /\ \A j \in DOMAIN D : E[j].gpu = D[j].gpu
  <2>1. /\ DOMAIN devices' = DOMAIN devices
        /\ \A j \in DOMAIN devices : devices'[j].gpu = devices[j].gpu
    BY SameGpus, SessionAssumption DEF SessionAssumption
  <2> QED
    BY <1>1, <2>1
<1>6. \A u \in Threads : Fits(h[u], E, n[u])
  BY <1>2, <1>4, <1>5, FitsQuiet
<1> QED
  BY <1>1, <1>2, <1>3, <1>6 DEF GetInv

LEMMA GetStep ==
  ASSUME OneListener, FdInv, CountInv, GetInv, [Next]_vars
  PROVE  GetInv'
<1>1. ASSUME NEW t \in Threads,
             \/ Query(t)
             \/ \E i \in DOMAIN devices : rsmi_event_notification_mask_set(t, i)
      PROVE  UNCHANGED <<devices, inits, get>>
  BY <1>1 DEF Query, rsmi_test_refcount, rsmi_topo_get_link_weight,
     rsmi_compute_process_gpus_get, rsmi_compute_process_info_by_pid_get,
     rsmi_compute_process_info_by_device_get, MemoryOfNode, Answer,
     rsmi_event_notification_mask_set
<1>2. ASSUME \/ \E f \in Fds : Raise(f)
             \/ AppOpens
             \/ \E s \in Systems : Repartition(s)
             \/ UNCHANGED vars
      PROVE  UNCHANGED <<devices, inits, get>>
  BY <1>2 DEF Raise, AppOpens, Repartition, vars
<1> QED
  BY <1>1, <1>2, GetFrame, GetInit, GetShutDown, GetPrepares, GetStarts,
     GetGoesOn DEF Next, Notify

-----------------------------------------------------------------------------
(* Files that are used are those of devices, unless one was never opened.  *)

\* A device that is started without a file.
LacksFile(D) == \E i \in DOMAIN D : D[i].fd # NoFile /\ D[i].file = NoFile

LEMMA LacksFileIs ==
  OpenedInv <=> (unopened <=> LacksFile(devices)) /\ (misused => unopened)
BY DEF OpenedInv, LacksFile, Started

LEMMA OpenedFrame ==
  ASSUME OpenedInv, UNCHANGED <<devices, unopened>>,
         misused' = misused \/ unopened
  PROVE  OpenedInv'
BY DEF OpenedInv, Started

\* A file that is no notification's is that of a device that has none.
LEMMA MisusedLacksFile ==
  ASSUME FdInv, OpenedInv, NEW i \in DOMAIN devices, devices[i].fd # NoFile,
         ~IsNotification(devices[i].file) \/ ~IsNotification(devices[i].fd)
  PROVE  unopened
<1>1. devices[i].file = NoFile
  BY DEF FdInv, FilesInv
<1> QED
  BY <1>1, LacksFileIs DEF LacksFile

LEMMA OpenedInit ==
  ASSUME ~CallerReinits, FdInv, OpenedInv, NEW t \in Threads,
         NEW all \in BOOLEAN, rsmi_init(t, all)
  PROVE  OpenedInv'
<1>1. misused' = misused
  BY DEF rsmi_init
<1>2. CASE UNCHANGED <<devices, unopened>>
  BY <1>1, <1>2, OpenedFrame
<1>3. CASE refCount = 0 /\ (Initialize(all) \/ InitializeThrows)
  <2>1. devices = <<>>
    BY <1>3 DEF FdInv, HandleInv
  <2>2. ~unopened /\ ~misused
    BY <2>1, LacksFileIs DEF LacksFile
  <2>3. ~LacksFile(devices')
    <3>1. CASE Initialize(all)
      <4>1. PICK found, kfd : devices' = Matched(sys, found, kfd)
        BY <3>1 DEF Initialize
      <4>2. \A i \in DOMAIN devices' : devices'[i].fd = NoFile
        BY <4>1, NewDevices
      <4>3. PICK D : D = devices'
        OBVIOUS
      <4> QED
        BY <4>2, <4>3 DEF LacksFile
    <3>2. CASE InitializeThrows
      BY <3>2 DEF InitializeThrows, Cleanup, LacksFile
    <3> QED
      BY <1>3, <3>1, <3>2
  <2>4. ~unopened'
    BY <1>3, <2>2 DEF Initialize, InitializeThrows, Cleanup
  <2> QED
    BY <1>1, <2>2, <2>3, <2>4 DEF OpenedInv, LacksFile, Started
<1> QED
  BY <1>2, <1>3 DEF rsmi_init

LEMMA OpenedShutDown ==
  ASSUME FdInv, OpenedInv, NEW t \in Threads, rsmi_shut_down(t)
  PROVE  OpenedInv'
<1>1. misused' = misused
  BY DEF rsmi_shut_down
<1>2. CASE UNCHANGED <<devices, unopened>>
  BY <1>1, <1>2, OpenedFrame
<1>3. CASE refCount = 1 /\ Started = {} /\ devices' = <<>> /\ ~unopened'
  BY <1>1, <1>3 DEF OpenedInv, Started
<1> QED
  BY <1>2, <1>3 DEF rsmi_shut_down, Cleanup, FdInv, TypeInv

LEMMA OpenedPrepares ==
  ASSUME FdInv, OpenedInv, NEW t \in Threads, NEW i \in DOMAIN devices,
         rsmi_event_notification_init(t, i)
  PROVE  OpenedInv'
<1>1. misused' = misused /\ devices[i].fd = NoFile
  BY DEF rsmi_event_notification_init
<1>2. CASE UNCHANGED <<devices, unopened>>
  BY <1>1, <1>2, OpenedFrame
<1>3. CASE ~UNCHANGED <<devices, unopened>>
  <2>1. PICK H \in Handles : Prepares(i, H[1], H[2])
    BY <1>3, Zenon DEF rsmi_event_notification_init, Prepares
  <2>2. PICK anon \in Fds :
          \/ devices' = [devices EXCEPT ![i].fd = anon] /\ unopened' = TRUE
          \/ /\ devices' = [devices EXCEPT ![i].fd = anon, ![i].file = anon]
             /\ unopened' = unopened
    BY <1>3, <2>1 DEF Prepares, LowestOf
  <2>3. PICK X : TypedIn(X)
    BY DEF FdInv, TypeInv
  <2>4. PICK D, E : D = devices /\ E = devices'
    OBVIOUS
  <2>5. /\ D = [j \in DOMAIN D |-> D[j]] /\ i \in DOMAIN D
        /\ D[i] = [card |-> D[i].card, bdf |-> D[i].bdf, gpu |-> D[i].gpu,
                   fd |-> D[i].fd, file |-> D[i].file]
    BY <2>3, <2>4 DEF TypedIn, Dev
  <2>6. anon # NoFile /\ D[i].fd = NoFile /\ D[i].file = NoFile
    BY <1>1, <2>4, FdFacts DEF FdInv, FilesInv
  <2>7. CASE E = [D EXCEPT ![i].fd = anon] /\ unopened' = TRUE
    <3>1. i \in DOMAIN E /\ E[i].fd = anon /\ E[i].file = NoFile
      BY <2>5, <2>6, <2>7
    <3>2. LacksFile(E)
      BY <2>6, <3>1 DEF LacksFile
    <3> QED
      BY <1>1, <2>4, <2>7, <3>2 DEF OpenedInv, LacksFile, Started
  <2>8. CASE /\ E = [D EXCEPT ![i].fd = anon, ![i].file = anon]
             /\ unopened' = unopened
    <3>1. /\ DOMAIN E = DOMAIN D /\ E[i].fd = anon /\ E[i].file = anon
          /\ \A j \in DOMAIN D \ {i} : E[j] = D[j]
      BY <2>5, <2>8
    <3>2. LacksFile(E) <=> LacksFile(D)
      BY <2>6, <3>1 DEF LacksFile
    <3> QED
      BY <1>1, <2>4, <2>8, <3>2 DEF OpenedInv, LacksFile, Started
  <2> QED
    BY <2>2, <2>4, <2>7, <2>8
<1> QED
  BY <1>2, <1>3

LEMMA OpenedStop ==
  ASSUME FdInv, OpenedInv, NEW t \in Threads, NEW i \in DOMAIN devices,
         rsmi_event_notification_stop(t, i)
  PROVE  OpenedInv'
<1>1. unopened' = unopened
  BY DEF rsmi_event_notification_stop
<1>2. CASE devices' = devices
  <2>1. \/ misused' = misused
        \/ devices[i].fd # NoFile /\ ~IsNotification(devices[i].file)
    BY DEF rsmi_event_notification_stop
  <2>2. misused' = misused \/ unopened
    BY <2>1, MisusedLacksFile
  <2> QED
    BY <1>1, <1>2, <2>2, OpenedFrame
<1>3. CASE devices' # devices
  <2>1. /\ devices[i].fd # NoFile /\ IsNotification(devices[i].file)
        /\ devices' = [devices EXCEPT ![i].fd = NoFile, ![i].file = NoFile]
        /\ misused' = misused
    BY <1>3 DEF rsmi_event_notification_stop, Stopped
  <2>2. devices[i].file # NoFile
    BY <2>1, FdFacts DEF IsNotification
  <2>3. PICK X : TypedIn(X)
    BY DEF FdInv, TypeInv
  <2>4. PICK D, E : D = devices /\ E = devices'
    OBVIOUS
  <2>5. /\ D = [j \in DOMAIN D |-> D[j]] /\ i \in DOMAIN D
        /\ D[i] = [card |-> D[i].card, bdf |-> D[i].bdf, gpu |-> D[i].gpu,
                   fd |-> D[i].fd, file |-> D[i].file]
    BY <2>3, <2>4 DEF TypedIn, Dev
  <2>6. /\ DOMAIN E = DOMAIN D /\ E[i].fd = NoFile
        /\ \A j \in DOMAIN D \ {i} : E[j] = D[j]
    BY <2>1, <2>4, <2>5
  <2>7. LacksFile(E) <=> LacksFile(D)
    BY <2>2, <2>4, <2>6 DEF LacksFile
  <2> QED
    BY <1>1, <2>1, <2>4, <2>7 DEF OpenedInv, LacksFile, Started
<1> QED
  BY <1>2, <1>3

LEMMA OpenedStep ==
  ASSUME ~CallerReinits, FdInv, GetInv, OpenedInv, [Next]_vars
  PROVE  OpenedInv'
<1>1. ASSUME NEW t \in Threads, NEW i \in DOMAIN devices,
             rsmi_event_notification_mask_set(t, i)
      PROVE  OpenedInv'
  <2>1. /\ UNCHANGED <<devices, unopened>>
        /\ \/ misused' = misused
           \/ devices[i].fd # NoFile /\ ~IsNotification(devices[i].fd)
    BY <1>1 DEF rsmi_event_notification_mask_set
  <2> QED
    BY <2>1, MisusedLacksFile, OpenedFrame
<1>2. ASSUME NEW t \in Threads, ReadClosed(t)
      PROVE  OpenedInv'
  <2>1. /\ get[t].room # 0 /\ get[t].dev # 0
        /\ ~IsNotification(get[t].file) /\ UNCHANGED <<devices, unopened>>
    BY <1>2 DEF ReadClosed, Getting
  <2>2. PICK i : i = get[t].dev
    OBVIOUS
  <2>3. i \in StartedOf(devices) /\ get[t].file = devices[i].file
    BY <2>1, <2>2 DEF GetInv, Fits
  <2>4. i \in DOMAIN devices /\ devices[i].fd # NoFile
    BY <2>3 DEF StartedOf
  <2> QED
    BY <2>1, <2>3, <2>4, MisusedLacksFile, OpenedFrame
<1>3. ASSUME NEW t \in Threads,
             \/ \E room \in 1 .. MaxRoom : rsmi_event_notification_get(t, room)
             \/ NextFile(t) \/ ReadEvent(t) \/ EndOfFile(t) \/ PollEnds(t)
             \/ GetReturns(t)
      PROVE  UNCHANGED <<devices, unopened, misused>>
  BY <1>3 DEF rsmi_event_notification_get, NextFile, ReadEvent, EndOfFile,
     PollEnds, GetReturns, PassEnded, Getting, flags
<1>4. ASSUME NEW t \in Threads, Query(t)
      PROVE  UNCHANGED <<devices, unopened, misused>>
  BY ZenonT(30), <1>4 DEF Query, rsmi_test_refcount, rsmi_topo_get_link_weight,
     rsmi_compute_process_gpus_get, rsmi_compute_process_info_by_pid_get,
     rsmi_compute_process_info_by_device_get, MemoryOfNode, Answer, flags
<1>5. ASSUME \/ \E f \in Fds : Raise(f)
             \/ AppOpens
             \/ \E s \in Systems : Repartition(s)
             \/ UNCHANGED vars
      PROVE  UNCHANGED <<devices, unopened, misused>>
  BY <1>5 DEF Raise, AppOpens, Repartition, vars, flags
<1> QED
  BY <1>1, <1>2, <1>3, <1>4, <1>5, OpenedFrame, OpenedInit, OpenedShutDown,
     OpenedPrepares, OpenedStop DEF Next, Notify

-----------------------------------------------------------------------------
(* What the calls and the descriptors have in common.                      *)

CallsInv == FdInv /\ CountInv /\ GetInv /\ OpenedInv

LEMMA CallsInit == Init => CallsInv
<1> SUFFICES ASSUME Init PROVE CallsInv
  OBVIOUS
<1>1. CountInv
  <2>1. \A t \in DOMAIN inits : inits[t] = 0
    BY DEF Init
  <2> QED
    BY <2>1, TallyNone, FS_EmptySet DEF Init, CountInv
<1>2. GetInv
  <2>1. get = [t \in Threads |-> Idle]
    BY DEF Init
  <2>2. \A t \in Threads : Fits(get[t], devices, inits[t]) /\ get[t].room = 0
    BY <2>1, FitsIdle
  <2> QED
    BY <2>1, <2>2 DEF GetInv
<1>3. OpenedInv
  BY DEF Init, OpenedInv, Started
<1> QED
  BY <1>1, <1>2, <1>3, FdInit DEF CallsInv

LEMMA CallsInvariant ==
  ASSUME ~CallerReinits, OneListener
  PROVE  Spec => []CallsInv
<1>1. CallsInv /\ [Next]_vars => CallsInv'
  BY FdStep, CountStep, GetStep, OpenedStep DEF CallsInv
<1> QED
  BY <1>1, CallsInit, PTL DEF Spec

\* The handle of /dev/kfd is counted and open as long as it is, and no call
\* reads or closes a file that is not a notification's, unless fdopen failed:
\* as long as callers do not initialise the library again after a notification
\* that failed, and one thread only uses notifications.
THEOREM DescriptorsAreCounted ==
  ASSUME ~CallerReinits, OneListener
  PROVE  Spec => []DescriptorsInUse
<1>1. CallsInv => DescriptorsInUse
  BY DEF CallsInv, FdInv, HandleInv, OpenedInv, DescriptorsInUse,
     HandleCounted, FilesInUse
<1> QED
  BY <1>1, CallsInvariant, PTL

-----------------------------------------------------------------------------
(* The events that were raised.                                            *)

\* Descriptors that nobody listens to have no events, and those that wait are
\* counted.
Waiting == [f \in Fds |-> open[f].unread]
UnreadInv ==
  /\ raised \in Nat /\ taken \in Nat /\ lost \in Nat
  /\ \A f \in Fds : open[f].unread # 0 => open[f].kind = "listening"
  /\ IsFiniteSet(Tally(Waiting))
  /\ raised = taken + lost + Cardinality(Tally(Waiting))

LEMMA WaitingTyped ==
  ASSUME FdInv
  PROVE  Waiting \in [Fds -> Nat]
BY DEF FdInv, TypeInv, TypedIn, Desc, Waiting

LEMMA UnreadKept ==
  ASSUME UnreadInv, UNCHANGED <<raised, taken, lost>>,
         \A f \in Fds : /\ open'[f].unread = open[f].unread
                        /\ open[f].unread # 0 => open'[f].kind = "listening"
  PROVE  UnreadInv'
<1>1. Waiting' = Waiting
  BY DEF Waiting
<1>2. PICK T : T = Tally(Waiting)
  OBVIOUS
<1>3. T = Tally(Waiting')
  BY <1>1, <1>2
<1>4. IsFiniteSet(T) /\ raised = taken + lost + Cardinality(T)
  BY <1>2 DEF UnreadInv
<1>5. Tally(Waiting)' = T
  BY <1>3 DEF Tally
<1>6. /\ IsFiniteSet(Tally(Waiting)')
      /\ raised' = taken' + lost' + Cardinality(Tally(Waiting)')
  BY <1>4, <1>5
<1> QED
  BY <1>6 DEF UnreadInv

LEMMA UnreadRaised ==
  ASSUME FdInv, UnreadInv, NEW f \in Fds, Raise(f)
  PROVE  UnreadInv'
<1>1. /\ open[f].kind = "listening" /\ raised' = raised + 1
      /\ open' = [open EXCEPT ![f].unread = @ + 1]
      /\ UNCHANGED <<taken, lost>>
  BY DEF Raise
<1>2. PICK X : TypedIn(X)
  BY DEF FdInv, TypeInv
<1>3. /\ \A e \in Fds : open'[e].kind = open[e].kind
      /\ \A e \in Fds \ {f} : open'[e] = open[e]
      /\ open'[f].unread = open[f].unread + 1
  BY <1>1, <1>2 DEF TypedIn, Desc
<1>4. PICK w, v : w = Waiting /\ v = Waiting'
  OBVIOUS
<1>5. w \in [Fds -> Nat] /\ v = [w EXCEPT ![f] = w[f] + 1]
  BY <1>3, <1>4, WaitingTyped DEF Waiting
<1>6. /\ IsFiniteSet(Tally(w)) /\ raised = taken + lost + Cardinality(Tally(w))
      /\ raised \in Nat /\ taken \in Nat /\ lost \in Nat
  BY <1>4 DEF UnreadInv
<1>7. IsFiniteSet(Tally(v)) /\ Cardinality(Tally(v)) = Cardinality(Tally(w)) + 1
  BY <1>5, <1>6, TallyUp
<1>8. Cardinality(Tally(w)) \in Nat
  BY <1>6, FS_CardinalityType
<1>9. raised' = taken' + lost' + Cardinality(Tally(v))
  BY <1>1, <1>6, <1>7, <1>8
<1>10. \A e \in Fds : open'[e].unread # 0 => open'[e].kind = "listening"
  BY <1>1, <1>3 DEF UnreadInv
<1>11. raised' \in Nat /\ taken' \in Nat /\ lost' \in Nat
  BY <1>1, <1>6
<1>12. Tally(Waiting)' = Tally(v)
  BY <1>4 DEF Tally
<1> QED
  BY <1>7, <1>9, <1>10, <1>11, <1>12 DEF UnreadInv

LEMMA UnreadTaken ==
  ASSUME FdInv, UnreadInv, NEW t \in Threads, ReadEvent(t)
  PROVE  UnreadInv'
<1>1. PICK f : f = get[t].file
  OBVIOUS
<1>2. /\ f \in Fds /\ open[f].unread > 0 /\ taken' = taken + 1
      /\ open' = [open EXCEPT ![f].unread = @ - 1]
      /\ UNCHANGED <<raised, lost>>
  BY <1>1 DEF ReadEvent, Getting, IsNotification
<1>3. PICK X : TypedIn(X)
  BY DEF FdInv, TypeInv
<1>4. /\ \A e \in Fds : open'[e].kind = open[e].kind
      /\ \A e \in Fds \ {f} : open'[e] = open[e]
      /\ open'[f].unread = open[f].unread - 1
  BY <1>2, <1>3 DEF TypedIn, Desc
<1>5. PICK w, v : w = Waiting /\ v = Waiting'
  OBVIOUS
<1>6. w \in [Fds -> Nat] /\ v = [w EXCEPT ![f] = w[f] - 1]
  BY <1>2, <1>4, <1>5, WaitingTyped DEF Waiting
<1>7. w[f] # 0 /\ open[f].unread # 0
  BY <1>2, <1>5, <1>6 DEF Waiting
<1>8. /\ IsFiniteSet(Tally(w)) /\ raised = taken + lost + Cardinality(Tally(w))
      /\ raised \in Nat /\ taken \in Nat /\ lost \in Nat
  BY <1>5 DEF UnreadInv
<1>9. IsFiniteSet(Tally(v)) /\ Cardinality(Tally(v)) = Cardinality(Tally(w)) - 1
  BY <1>2, <1>6, <1>7, <1>8, TallyLess
<1>10. Cardinality(Tally(w)) \in Nat
  BY <1>8, FS_CardinalityType
<1>11. raised' = taken' + lost' + Cardinality(Tally(v))
  BY <1>2, <1>8, <1>9, <1>10
<1>12. \A e \in Fds : open'[e].unread # 0 => open'[e].kind = "listening"
  BY <1>4, <1>7 DEF UnreadInv
<1>13. raised' \in Nat /\ taken' \in Nat /\ lost' \in Nat
  BY <1>2, <1>8
<1>14. Tally(Waiting)' = Tally(v)
  BY <1>5 DEF Tally
<1> QED
  BY <1>9, <1>11, <1>12, <1>13, <1>14 DEF UnreadInv

\* The events of a file that is closed are lost, and the handle has none.
LEMMA UnreadStop ==
  ASSUME FdInv, UnreadInv, NEW t \in Threads, NEW i \in DOMAIN devices,
         rsmi_event_notification_stop(t, i)
  PROVE  UnreadInv'
<1>1. UNCHANGED <<raised, taken>>
  BY DEF rsmi_event_notification_stop
<1>2. CASE UNCHANGED <<open, lost>>
  BY <1>1, <1>2, UnreadKept DEF UnreadInv
<1>3. CASE ~UNCHANGED <<open, lost>>
  <2>1. PICK f : f = devices[i].file
    OBVIOUS
  <2>2. /\ devices[i].fd # NoFile /\ IsNotification(f)
        /\ lost' = lost + open[f].unread
        /\ open' = IF fhRefs = 1
                   THEN [[open EXCEPT ![f] = Free] EXCEPT ![fh] = Free]
                   ELSE [open EXCEPT ![f] = Free]
    BY <1>3, <2>1 DEF rsmi_event_notification_stop, ReleaseHandle
  <2>3. PICK X : TypedIn(X)
    BY DEF FdInv, TypeInv
  <2>4. fhRefs = 1 => fh \in Fds /\ open[fh].kind = "kfd"
    <3>1. fhRefs > 0 => fh # NoFile /\ open[fh].kind = "kfd"
      BY NotifyFrame
    <3>2. fh \in Numbers
      BY DEF FdInv, TypeInv
    <3> QED
      BY <3>1, <3>2 DEF Numbers
  <2>5. f \in Fds /\ Free.unread = 0 /\ Free.kind = "free"
    BY <2>2 DEF IsNotification, Free
  <2>6. fhRefs = 1 => open[fh].unread = 0
    BY <2>4 DEF UnreadInv
  <2>7. \A e \in Fds \ {f} : open'[e].unread = open[e].unread
    BY <2>2, <2>3, <2>4, <2>5, <2>6 DEF TypedIn
  <2>8. open'[f].unread = 0
    BY <2>2, <2>3, <2>5 DEF TypedIn
  <2>9. \A e \in Fds : open'[e].unread # 0 =>
          open'[e] = open[e] /\ open[e].unread # 0
    BY <2>2, <2>3, <2>4, <2>5, <2>7, <2>8 DEF TypedIn
  <2>10. \A e \in Fds : open'[e].unread # 0 => open'[e].kind = "listening"
    BY <2>9 DEF UnreadInv
  <2>11. PICK w, v : w = Waiting /\ v = Waiting'
    OBVIOUS
  <2>12. w \in [Fds -> Nat] /\ v = [e \in Fds |-> open'[e].unread]
    BY <2>11, WaitingTyped DEF Waiting
  <2>13. PICK n \in Nat : w[f] = n
    BY <2>5, <2>12
  <2>14. open[f].unread = n /\ v[f] = 0
    BY <2>5, <2>8, <2>11, <2>12, <2>13 DEF Waiting
  <2>15. \A e \in Fds \ {f} : v[e] = w[e]
    BY <2>7, <2>11, <2>12 DEF Waiting
  <2>16. v \in [Fds -> Nat]
    BY <2>12, <2>14, <2>15
  <2>17. /\ IsFiniteSet(Tally(w)) /\ raised = taken + lost + Cardinality(Tally(w))
         /\ raised \in Nat /\ taken \in Nat /\ lost \in Nat
    BY <2>11 DEF UnreadInv
  <2>18. /\ IsFiniteSet(Tally(v))
         /\ Cardinality(Tally(v)) = Cardinality(Tally(w)) - (n - 0)
    <3>1. w \in [Fds -> Nat] /\ 0 <= n
      BY <2>12
    <3> QED
      BY ONLY <3>1, <2>5, <2>13, <2>14, <2>15, <2>16, <2>17, TallyDown
  <2>19. Cardinality(Tally(w)) \in Nat
    BY <2>17, FS_CardinalityType
  <2>20. raised' = taken' + lost' + Cardinality(Tally(v)) /\ lost' \in Nat
    BY <1>1, <2>2, <2>14, <2>17, <2>18, <2>19
  <2>21. Tally(Waiting)' = Tally(v)
    BY <2>11 DEF Tally
  <2> QED
    BY <1>1, <2>10, <2>17, <2>18, <2>20, <2>21 DEF UnreadInv
<1> QED
  BY <1>2, <1>3

LEMMA UnreadShutDown ==
  ASSUME FdInv, UnreadInv, NEW t \in Threads, rsmi_shut_down(t)
  PROVE  UnreadInv'
<1>1. UNCHANGED <<raised, taken, lost>>
  BY DEF rsmi_shut_down, events
<1>2. CASE open' = open
  BY <1>1, <1>2, UnreadKept DEF UnreadInv
<1>3. CASE open' # open
  <2>1. fh # NoFile /\ open' = [open EXCEPT ![fh] = Free] /\ refCount > 0
    BY <1>3 DEF rsmi_shut_down, Cleanup, FdInv, TypeInv
  <2>2. fh \in Fds /\ open[fh].kind = "kfd"
    BY <2>1 DEF FdInv, TypeInv, HandleInv, Numbers
  <2>3. open[fh].unread = 0 /\ Free.unread = 0
    BY <2>2 DEF UnreadInv, Free
  <2>4. PICK X : TypedIn(X)
    BY DEF FdInv, TypeInv
  <2>5. \A f \in Fds : /\ open'[f].unread = open[f].unread
                       /\ f # fh => open'[f] = open[f]
    BY <2>1, <2>2, <2>3, <2>4 DEF TypedIn
  <2>6. \A f \in Fds : open[f].unread # 0 => open'[f].kind = "listening"
    BY <2>3, <2>5 DEF UnreadInv
  <2> QED
    BY <1>1, <2>5, <2>6, UnreadKept
<1> QED
  BY <1>2, <1>3

LEMMA UnreadPrepares ==
  ASSUME FdInv, UnreadInv, NEW t \in Threads, NEW i \in DOMAIN devices,
         rsmi_event_notification_init(t, i)
  PROVE  UnreadInv'
<1>1. UNCHANGED <<raised, taken, lost>>
  BY DEF rsmi_event_notification_init, events
<1>2. CASE open' = open
  BY <1>1, <1>2, UnreadKept DEF UnreadInv
<1>3. CASE open' # open
  <2>1. PICK H \in Handles : Prepares(i, H[1], H[2])
    BY <1>3, Zenon DEF rsmi_event_notification_init, Prepares
  <2>2. PICK h, o : h = H[1] /\ o = H[2]
    OBVIOUS
  <2>3. PICK X : TypedIn(X)
    BY DEF FdInv, TypeInv
  <2>4. fh \in Numbers /\ (fh # NoFile => open[fh].kind = "kfd")
    BY NotifyFrame DEF FdInv, TypeInv
  <2>5. /\ h \in Fds /\ o \in [Fds -> Desc(X)] /\ o[h].kind = "kfd"
        /\ fh # NoFile => h = fh /\ o = open
        /\ \A f \in Fds \ {h} : o[f] = open[f]
    BY ONLY <2>2, <2>3, <2>4, H \in Handles, HandleOpens
  <2>6. open[h].unread = 0 /\ o[h].unread = 0
    <3>1. CASE fh # NoFile
      BY <2>4, <2>5, <3>1 DEF UnreadInv
    <3>2. CASE fh = NoFile
      <4>1. PICK f \in LowestOf(FreeFds) :
              H = <<f, [open EXCEPT ![f] = [Free EXCEPT !.kind = "kfd"]]>>
        BY <3>2 DEF Handles
      <4>2. /\ f \in Fds /\ open[f].kind = "free" /\ h = f
            /\ o = [open EXCEPT ![f] = [Free EXCEPT !.kind = "kfd"]]
        BY <2>2, <4>1 DEF LowestOf, FreeFds
      <4>3. [Free EXCEPT !.kind = "kfd"].unread = 0
        BY DEF Free
      <4> QED
        BY <2>3, <4>2, <4>3 DEF UnreadInv, TypedIn
    <3> QED
      BY <3>1, <3>2
  <2>7. \A f \in Fds : /\ o[f].unread = open[f].unread
                       /\ o[f].unread # 0 => o[f].kind = "listening"
    BY <2>5, <2>6 DEF UnreadInv
  <2>8. CASE open' = o
    BY <1>1, <2>7, <2>8, UnreadKept
  <2>9. CASE open' # o
    <3>1. PICK anon \in Fds :
            /\ o[anon].kind = "free"
            /\ open' = [o EXCEPT ![anon] =
                          [kind |-> "anon", gpu |-> devices[i].gpu,
                           unread |-> 0]]
      BY <2>1, <2>2, <2>9 DEF Prepares, LowestOf
    <3>2. o[anon].unread = 0
      BY <2>7, <3>1
    <3>3. \A f \in Fds : /\ open'[f].unread = o[f].unread
                         /\ f # anon => open'[f] = o[f]
      BY <2>5, <3>1, <3>2
    <3>4. \A f \in Fds : /\ open'[f].unread = open[f].unread
                         /\ open[f].unread # 0 => open'[f].kind = "listening"
      BY <2>7, <3>2, <3>3
    <3> QED
      BY <1>1, <3>4, UnreadKept
  <2> QED
    BY <2>8, <2>9
<1> QED
  BY <1>2, <1>3

LEMMA UnreadStep ==
  ASSUME ~CallerReinits, FdInv, UnreadInv, [Next]_vars
  PROVE  UnreadInv'
<1>1. ASSUME UNCHANGED <<open, events>>
      PROVE  UnreadInv'
  BY <1>1, UnreadKept DEF UnreadInv, events
<1>2. ASSUME NEW t \in Threads, NEW all \in BOOLEAN, rsmi_init(t, all)
      PROVE  UNCHANGED <<open, events>>
  BY <1>2, SessionInit DEF rsmi_init
<1>3. ASSUME NEW t \in Threads, NEW i \in DOMAIN devices,
             rsmi_event_notification_mask_set(t, i)
      PROVE  UnreadInv'
  <2>1. UNCHANGED events
    BY <1>3 DEF rsmi_event_notification_mask_set
  <2>2. CASE open' = open
    BY <1>1, <2>1, <2>2
  <2>3. CASE open' # open
    <3>1. PICK f : f = devices[i].fd
      OBVIOUS
    <3>2. f \in Fds /\ open' = [open EXCEPT ![f].kind = "listening"]
      BY <1>3, <2>3, <3>1 DEF rsmi_event_notification_mask_set, IsNotification
    <3>3. PICK X : TypedIn(X)
      BY DEF FdInv, TypeInv
    <3>4. \A e \in Fds : /\ open'[e].unread = open[e].unread
                         /\ open[e].unread # 0 => open'[e].kind = "listening"
      BY <3>2, <3>3 DEF TypedIn, Desc, UnreadInv
    <3> QED
      BY <2>1, <3>4, UnreadKept DEF events
  <2> QED
    BY <2>2, <2>3
<1>4. ASSUME NEW t \in Threads,
             \/ \E room \in 1 .. MaxRoom : rsmi_event_notification_get(t, room)
             \/ NextFile(t) \/ EndOfFile(t) \/ ReadClosed(t) \/ PollEnds(t)
             \/ GetReturns(t)
      PROVE  UNCHANGED <<open, events>>
  BY <1>4 DEF rsmi_event_notification_get, NextFile, ReadClosed, EndOfFile,
     PollEnds, GetReturns, PassEnded, Getting, events
<1>5. ASSUME NEW t \in Threads, Query(t)
      PROVE  UNCHANGED <<open, events>>
  BY <1>5 DEF Query, rsmi_test_refcount, rsmi_topo_get_link_weight,
     rsmi_compute_process_gpus_get, rsmi_compute_process_info_by_pid_get,
     rsmi_compute_process_info_by_device_get, MemoryOfNode, Answer
<1>6. ASSUME (\E s \in Systems : Repartition(s)) \/ UNCHANGED vars
      PROVE  UNCHANGED <<open, events>>
  BY <1>6 DEF Repartition, vars
<1>7. ASSUME AppOpens
      PROVE  UnreadInv'
  <2>1. PICK f \in FreeFds :
          open' = [open EXCEPT ![f] = [Free EXCEPT !.kind = "app"]]
    BY <1>7 DEF AppOpens, LowestOf
  <2>2. /\ f \in Fds /\ open[f].kind = "free"
        /\ [Free EXCEPT !.kind = "app"].unread = 0
    BY <2>1 DEF FreeFds, Free
  <2>3. open[f].unread = 0
    BY <2>2 DEF UnreadInv
  <2>4. PICK X : TypedIn(X)
    BY DEF FdInv, TypeInv
  <2>5. \A e \in Fds : /\ open'[e].unread = open[e].unread
                       /\ e # f => open'[e] = open[e]
    BY <2>1, <2>2, <2>3, <2>4 DEF TypedIn
  <2>6. \A e \in Fds : open[e].unread # 0 => open'[e].kind = "listening"
    BY <2>3, <2>5 DEF UnreadInv
  <2>7. UNCHANGED events
    BY <1>7 DEF AppOpens
  <2> QED
    BY <2>5, <2>6, <2>7, UnreadKept DEF events
<1> QED
  BY <1>1, <1>2, <1>3, <1>4, <1>5, <1>6, <1>7, UnreadShutDown, UnreadPrepares,
     UnreadStop, UnreadTaken, UnreadRaised DEF Next, Notify

\* Every event that was raised was delivered, waits in the file of its device,
\* or was lost when that was closed; and what a thread that is inside finds in
\* its buffer names a device and its GPU, as long as callers do not initialise
\* the library again after a notification that failed, and one thread only uses
\* notifications.
THEOREM EventsArrive ==
  ASSUME ~CallerReinits, OneListener
  PROVE  Spec => []EventsDelivered
<1>1. Init => UnreadInv
  <2> SUFFICES ASSUME Init PROVE UnreadInv
    OBVIOUS
  <2>1. \A f \in Fds : open[f].unread = 0
    BY DEF Init, Free
  <2>2. Tally(Waiting) = {}
    BY <2>1, TallyNone DEF Waiting
  <2> QED
    BY <2>1, <2>2, FS_EmptySet DEF Init, UnreadInv
<1>2. CallsInv /\ UnreadInv /\ [Next]_vars => UnreadInv'
  BY UnreadStep DEF CallsInv
<1>3. CallsInv /\ UnreadInv => EventsDelivered
  <2> SUFFICES ASSUME CallsInv, UnreadInv PROVE EventsDelivered
    OBVIOUS
  <2>1. raised = taken + lost + Cardinality(Unread)
    BY DEF UnreadInv, Waiting, Unread
  <2>2. ASSUME NEW t \in Threads, NEW k \in DOMAIN get[t].items
        PROVE  /\ get[t].items[k][1] \in DOMAIN devices
               /\ devices[get[t].items[k][1]].gpu = get[t].items[k][2]
    <3>1. get[t].items \in Seq(ItemsOf(devices))
      BY DEF CallsInv, GetInv, Fits
    <3>2. get[t].items[k] \in ItemsOf(devices)
      BY <2>2, <3>1
    <3> QED
      BY <3>2 DEF ItemsOf
  <2> QED
    BY <2>1, <2>2 DEF EventsDelivered
<1> QED
  BY <1>1, <1>2, <1>3, CallsInvariant, PTL DEF Spec

\* The devices are there as long as a thread is between rsmi_init and
\* rsmi_shut_down, whichever was first and whichever is last, and no count of
\* references is found negative, as long as callers do not initialise the
\* library again after a notification that failed.
THEOREM DevicesLiveAsCounted ==
  ASSUME ~CallerReinits
  PROVE  Spec => []DevicesCounted
<1>1. Init => FdInv /\ CountInv /\ answer.of = "none"
  BY FdInit, CallsInit DEF CallsInv, Init, NoAnswer
<1>2. ASSUME FdInv, CountInv, [Next]_vars,
             answer.of = "count" => answer.refs >= 0
      PROVE  answer'.of = "count" => answer'.refs >= 0
  <2>1. CASE answer' = NoAnswer \/ answer' = answer
    BY <1>2, <2>1 DEF NoAnswer
  <2>2. ASSUME NEW t \in Threads, Query(t)
        PROVE  answer'.of = "count" => answer'.refs >= 0
    <3>1. CASE rsmi_test_refcount(t)
      <4>1. refCount \in Nat /\ (refCount = 0 => devices = <<>>)
        BY <1>2 DEF FdInv, TypeInv, HandleInv
      <4>2. answer'.refs = refCount
        BY <3>1, <4>1 DEF rsmi_test_refcount
      <4> QED
        BY <4>1, <4>2
    <3>2. CASE ~rsmi_test_refcount(t)
      <4>1. answer'.of \in {"weight", "gpus", "process", "memory"}
        <5>1. ASSUME NEW i, NEW j, rsmi_topo_get_link_weight(t, i, j)
              PROVE  answer'.of = "weight"
          BY <5>1 DEF rsmi_topo_get_link_weight, Answer
        <5>2. ASSUME NEW gpus, rsmi_compute_process_gpus_get(t, gpus)
              PROVE  answer'.of = "gpus"
          BY <5>2 DEF rsmi_compute_process_gpus_get, Answer
        <5>3. ASSUME NEW proc, rsmi_compute_process_info_by_pid_get(t, proc)
              PROVE  answer'.of = "process"
          BY <5>3 DEF rsmi_compute_process_info_by_pid_get, Answer
        <5>4. ASSUME NEW proc, NEW i,
                     rsmi_compute_process_info_by_device_get(t, proc, i)
              PROVE  answer'.of = "process"
          BY <5>4 DEF rsmi_compute_process_info_by_device_get, Answer
        <5>5. ASSUME NEW i, NEW a, MemoryOfNode(t, i, a)
              PROVE  answer'.of = "memory"
          BY <5>5 DEF MemoryOfNode, Answer
        <5> QED
          BY <2>2, <3>2, <5>1, <5>2, <5>3, <5>4, <5>5 DEF Query
      <4> QED
        BY <4>1
    <3> QED
      BY <3>1, <3>2
  <2>3. CASE /\ Next
             /\ ~ \E t \in Threads : Query(t)
    BY ZenonT(30), <2>1, <2>3 DEF Next, Notify, rsmi_init, rsmi_shut_down,
       rsmi_event_notification_init, rsmi_event_notification_mask_set,
       rsmi_event_notification_stop, rsmi_event_notification_get, NextFile,
       ReadEvent, EndOfFile, ReadClosed, PollEnds, GetReturns, PassEnded,
       Getting, Raise, AppOpens, Repartition
  <2>4. CASE UNCHANGED vars
    BY <2>1, <2>4 DEF vars
  <2> QED
    BY <1>2, <2>2, <2>3, <2>4
<1>3. FdInv /\ CountInv /\ [Next]_vars => CountInv'
  BY CountStep
<1>4. FdInv /\ CountInv /\ (answer.of = "count" => answer.refs >= 0)
        => DevicesCounted
  BY DEF FdInv, HandleInv, CountInv, DevicesCounted
<1>5. answer.of = "none" => (answer.of = "count" => answer.refs >= 0)
  OBVIOUS
<1>6. FdInv /\ [Next]_vars => FdInv'
  BY FdStep
<1>7. DEFINE CountsInv == /\ FdInv /\ CountInv
                          /\ answer.of = "count" => answer.refs >= 0
<1>8. Init => CountsInv
  BY <1>1, <1>5
<1>9. CountsInv /\ [Next]_vars => CountsInv'
  BY <1>2, <1>3, <1>6
<1>10. CountsInv => DevicesCounted
  BY <1>4
<1> QED
  BY <1>8, <1>9, <1>10, PTL DEF Spec

-----------------------------------------------------------------------------
(* Places in an order, and induction on the numbers of the cards.          *)

\* A set of numbers that is not empty has a least one.
LEMMA LeastOf ==
  ASSUME NEW T, T \subseteq Nat, T # {}
  PROVE  \E n \in T : \A m \in T : ~(m < n)
<1>1. PICK R : R = OpToRel(<, Nat)
  OBVIOUS
<1>2. IsWellFoundedOn(R, Nat)
  BY <1>1, NatLessThanWellFounded
<1>3. PICK n \in T : \A m \in T : ~ (<<m, n>> \in R)
  BY <1>2, WFMin
<1>4. \A m \in T : m < n => <<m, n>> \in R
  BY <1>1 DEF OpToRel
<1> QED
  BY <1>3, <1>4

LEMMA SetInduction ==
  ASSUME NEW S, 0 \in S, \A n \in Nat : n \in S => n + 1 \in S
  PROVE  Nat \subseteq S
<1>1. SUFFICES ASSUME Nat \ S # {} PROVE FALSE
  OBVIOUS
<1>2. PICK n \in Nat \ S : \A m \in Nat \ S : ~(m < n)
  BY <1>1, LeastOf
<1>3. n - 1 \in Nat /\ n - 1 < n /\ n = (n - 1) + 1
  BY <1>2
<1> QED
  BY <1>2, <1>3

LEMMA MinFacts ==
  ASSUME NEW T, T \subseteq Nat, T # {}
  PROVE  Min(T) \in T /\ \A n \in T : Min(T) <= n
<1>1. PICK n \in T : \A m \in T : ~(m < n)
  BY LeastOf
<1>2. \A m \in T : n <= m
  BY <1>1
<1> QED
  BY <1>1, <1>2 DEF Min

LEMMA MaxFacts ==
  ASSUME NEW N \in Nat, NEW T, T \subseteq 1 .. N, T # {}
  PROVE  Max(T) \in T /\ \A n \in T : n <= Max(T)
<1>1. PICK U : U = {N - n : n \in T}
  OBVIOUS
<1>2. U \subseteq Nat /\ U # {}
  <2>1. \A n \in T : N - n \in Nat
    OBVIOUS
  <2> QED
    BY <1>1, <2>1
<1>3. PICK u \in U : \A v \in U : ~(v < u)
  BY <1>2, LeastOf
<1>4. PICK m \in T : u = N - m
  BY <1>1, <1>3
<1>5. \A n \in T : m >= n
  <2>1. SUFFICES ASSUME NEW n \in T PROVE m >= n
    OBVIOUS
  <2>2. ~(N - n < N - m)
    BY <1>1, <1>3, <1>4
  <2> QED
    BY <2>2
<1>6. Max(T) \in T /\ \A n \in T : Max(T) >= n
  BY <1>5 DEF Max
<1>7. \A n \in T : n \in Int
  OBVIOUS
<1> QED
  BY <1>6, <1>7

\* In a finite total order, R, the element in place k is the one that k
\* elements are not after.
Place(S, R, p) == Cardinality({q \in S : <<q, p>> \in R})
Order(S, R) ==
  /\ \A p \in S : <<p, p>> \in R
  /\ \A p, q \in S : <<p, q>> \in R \/ <<q, p>> \in R
  /\ \A p, q \in S : <<p, q>> \in R /\ <<q, p>> \in R => p = q
  /\ \A p, q, r \in S : <<p, q>> \in R /\ <<q, r>> \in R => <<p, r>> \in R
LEMMA Places ==
  ASSUME NEW S, IsFiniteSet(S), NEW R, Order(S, R)
  PROVE  /\ \A k \in 1 .. Cardinality(S) : \E p \in S : Place(S, R, p) = k
         /\ \A p \in S : Place(S, R, p) \in 1 .. Cardinality(S)
         /\ \A p, q \in S : Place(S, R, p) <= Place(S, R, q) => <<p, q>> \in R
<1> DEFINE below(p) == {q \in S : <<q, p>> \in R}
<1>1. Cardinality(S) \in Nat
  BY FS_CardinalityType
<1>2. ASSUME NEW p \in S
      PROVE  /\ IsFiniteSet(below(p)) /\ Place(S, R, p) = Cardinality(below(p))
             /\ Place(S, R, p) \in 1 .. Cardinality(S)
             /\ Place(S, R, p) \in Nat
  <2>1. PICK B : B = below(p)
    OBVIOUS
  <2>2. B \subseteq S /\ p \in B
    BY <2>1 DEF Order
  <2>3. IsFiniteSet(B) /\ Cardinality(B) <= Cardinality(S)
    BY <2>2, FS_Subset
  <2>4. Cardinality(B) \in Nat
    BY <2>3, FS_CardinalityType
  <2>5. Cardinality(B) # 0
    BY <2>2, <2>3, FS_EmptySet
  <2>6. Cardinality(B) \in 1 .. Cardinality(S)
    BY <1>1, <2>3, <2>4, <2>5
  <2> QED
    BY <2>1, <2>3, <2>6 DEF Place
<1>3. ASSUME NEW p \in S, NEW q \in S, <<p, q>> \notin R
      PROVE  Place(S, R, q) < Place(S, R, p)
  <2>1. PICK B, C : B = below(q) /\ C = below(p)
    OBVIOUS
  <2>2. <<q, p>> \in R
    BY <1>3 DEF Order
  <2>3. B \subseteq C
    BY <2>1, <2>2 DEF Order
  <2>4. p \in C /\ p \notin B
    BY <1>3, <2>1 DEF Order
  <2>5. IsFiniteSet(C) /\ IsFiniteSet(B)
    BY <1>2, <2>1
  <2>6. Cardinality(B) <= Cardinality(C) /\ Cardinality(B) # Cardinality(C)
    BY <2>3, <2>4, <2>5, FS_Subset
  <2>7. Cardinality(B) \in Nat /\ Cardinality(C) \in Nat
    BY <2>5, FS_CardinalityType
  <2>8. Place(S, R, q) = Cardinality(B) /\ Place(S, R, p) = Cardinality(C)
    BY <2>1 DEF Place
  <2> QED
    BY <2>6, <2>7, <2>8
<1>4. ASSUME NEW p \in S, NEW q \in S, Place(S, R, p) <= Place(S, R, q)
      PROVE  <<p, q>> \in R
  <2>1. Place(S, R, p) \in Nat /\ Place(S, R, q) \in Nat
    BY <1>2
  <2> QED
    BY <1>3, <1>4, <2>1
<1>5. \A k \in 1 .. Cardinality(S) : \E p \in S : Place(S, R, p) = k
  <2>1. PICK f : f = [p \in S |-> Place(S, R, p)]
    OBVIOUS
  <2>2. f \in [S -> 1 .. Cardinality(S)]
    BY <1>2, <2>1
  <2>3. ASSUME NEW p \in S, NEW q \in S, f[p] = f[q]
        PROVE  p = q
    <3>1. Place(S, R, p) = Place(S, R, q) /\ Place(S, R, p) \in Nat
      BY <1>2, <2>1, <2>3
    <3>2. <<p, q>> \in R /\ <<q, p>> \in R
      BY <1>4, <3>1
    <3> QED
      BY <3>2 DEF Order
  <2>4. f \in Injection(S, 1 .. Cardinality(S))
    BY <2>2, <2>3 DEF Injection, IsInjective
  <2>5. /\ IsFiniteSet(1 .. Cardinality(S))
        /\ Cardinality(1 .. Cardinality(S)) = Cardinality(S)
    BY <1>1, FS_Interval
  <2>6. f \in Surjection(S, 1 .. Cardinality(S))
    BY <2>4, <2>5, FS_Injection
  <2>7. \A k \in 1 .. Cardinality(S) : \E p \in S : f[p] = k
    BY <2>6 DEF Surjection
  <2> QED
    BY <2>1, <2>7
<1> QED
  BY <1>2, <1>4, <1>5

\* Numbers in ascending order.
LEMMA AscendingFacts ==
  ASSUME NEW S, S \subseteq Nat, IsFiniteSet(S)
  PROVE  /\ DOMAIN Ascending(S) = 1 .. Cardinality(S)
         /\ \A k \in 1 .. Cardinality(S) : Ascending(S)[k] \in S
         /\ \A j, k \in 1 .. Cardinality(S) :
              /\ Ascending(S)[j] = Ascending(S)[k] => j = k
              /\ j <= k => Ascending(S)[j] <= Ascending(S)[k]
         /\ \A n \in S : \E k \in 1 .. Cardinality(S) : Ascending(S)[k] = n
<1> DEFINE below(n) == {m \in S : m <= n}
<1>1. PICK R : R = {e \in S \X S : e[1] <= e[2]}
  OBVIOUS
<1>2. \A m, n \in S : <<m, n>> \in R <=> m <= n
  BY <1>1
<1>3. Order(S, R)
  <2>1. \A p \in S : <<p, p>> \in R
    BY <1>2
  <2>2. \A p, q \in S : <<p, q>> \in R \/ <<q, p>> \in R
    <3>1. SUFFICES ASSUME NEW p \in S, NEW q \in S
                   PROVE  p <= q \/ q <= p
      BY <1>2
    <3>2. p \in Nat /\ q \in Nat
      OBVIOUS
    <3> QED
      BY ONLY <3>2
  <2>3. \A p, q \in S : <<p, q>> \in R /\ <<q, p>> \in R => p = q
    BY <1>2
  <2>4. \A p, q, r \in S : <<p, q>> \in R /\ <<q, r>> \in R => <<p, r>> \in R
    BY <1>2
  <2> QED
    BY <2>1, <2>2, <2>3, <2>4 DEF Order
<1>4. \A n \in S : Place(S, R, n) = Cardinality(below(n))
  <2>1. SUFFICES ASSUME NEW n \in S PROVE Place(S, R, n) = Cardinality(below(n))
    OBVIOUS
  <2>2. {q \in S : <<q, n>> \in R} = below(n)
    BY <1>2
  <2> QED
    BY <2>2 DEF Place
<1>5. \A k \in 1 .. Cardinality(S) : \E n \in S : Cardinality(below(n)) = k
  BY <1>3, <1>4, Places
<1>6. \A k \in 1 .. Cardinality(S) :
        Ascending(S)[k] = CHOOSE n \in S : Cardinality(below(n)) = k
  BY DEF Ascending
<1>7. \A k \in 1 .. Cardinality(S) :
        /\ Ascending(S)[k] \in S
        /\ Cardinality(below(Ascending(S)[k])) = k
  BY <1>5, <1>6
<1>8. \A n \in S : Cardinality(below(n)) \in 1 .. Cardinality(S)
  BY <1>3, <1>4, Places
<1>9. \A m, n \in S : Cardinality(below(m)) = Cardinality(below(n)) => m = n
  <2>1. SUFFICES ASSUME NEW m \in S, NEW n \in S,
                        Cardinality(below(m)) = Cardinality(below(n))
                 PROVE  m = n
    OBVIOUS
  <2>2. Place(S, R, m) = Place(S, R, n) /\ Place(S, R, m) \in Nat
    BY <1>4, <1>8, <2>1
  <2>3. Place(S, R, m) <= Place(S, R, n) /\ Place(S, R, n) <= Place(S, R, m)
    BY <2>2
  <2>4. <<m, n>> \in R /\ <<n, m>> \in R
    BY <1>3, <2>3, Places
  <2> QED
    BY <1>3, <2>4 DEF Order
<1>10. \A j, k \in 1 .. Cardinality(S) :
         Ascending(S)[j] = Ascending(S)[k] => j = k
  BY <1>7
<1>11. \A n \in S : \E k \in 1 .. Cardinality(S) : Ascending(S)[k] = n
  BY <1>7, <1>8, <1>9
<1>12. DOMAIN Ascending(S) = 1 .. Cardinality(S)
  BY DEF Ascending
<1>13. ASSUME NEW j \in 1 .. Cardinality(S), NEW k \in 1 .. Cardinality(S), j <= k
       PROVE  Ascending(S)[j] <= Ascending(S)[k]
  <2>1. PICK m \in S, n \in S : m = Ascending(S)[j] /\ n = Ascending(S)[k]
    BY <1>7
  <2>2. Place(S, R, m) = j /\ Place(S, R, n) = k
    BY <1>4, <1>7, <2>1
  <2>3. Place(S, R, m) <= Place(S, R, n)
    BY <1>13, <2>2
  <2>4. <<m, n>> \in R
    BY <1>3, <2>3, Places
  <2> QED
    BY <1>2, <2>1, <2>4
<1> QED
  BY <1>7, <1>10, <1>11, <1>12, <1>13

\* The elements at these positions, each once, by their keys.
LEMMA SortedFacts ==
  ASSUME NEW D, NEW P, P \subseteq Nat, IsFiniteSet(P),
         \A p \in P : SortKey(D[p]) \in Nat, NEW K, K = Sorted(D, P)
  PROVE  /\ DOMAIN K = 1 .. Cardinality(P) /\ Cardinality(P) \in Nat
         /\ \A k \in DOMAIN K : \E p \in P : K[k] = D[p]
         /\ \A j, k \in DOMAIN K : j <= k => SortKey(K[j]) <= SortKey(K[k])
         /\ \E at \in [DOMAIN K -> P] :
              /\ \A k \in DOMAIN K : K[k] = D[at[k]]
              /\ \A j, k \in DOMAIN K : at[j] = at[k] => j = k
              /\ \A p \in P : \E k \in DOMAIN K : at[k] = p
<1> DEFINE after(p) == {q \in P : NotBefore(D, p, q)}
<1>0. PICK key : key = [p \in P |-> SortKey(D[p])]
  OBVIOUS
<1>1. PICK R : R = {e \in P \X P : NotBefore(D, e[2], e[1])}
  OBVIOUS
<1>2. \A p, q \in P : <<q, p>> \in R <=> key[q] < key[p] \/ (key[q] = key[p] /\ q <= p)
  BY <1>0, <1>1 DEF NotBefore
<1>3. \A p \in P : key[p] \in Nat /\ p \in Nat
  BY <1>0
<1>4. Order(P, R)
  <2>1. \A p \in P : <<p, p>> \in R
    BY ONLY <1>2, <1>3
  <2>2. \A p, q \in P : <<p, q>> \in R \/ <<q, p>> \in R
    <3>1. ASSUME NEW p \in P, NEW q \in P
          PROVE  \/ key[q] < key[p] \/ (key[q] = key[p] /\ q <= p)
                 \/ key[p] < key[q] \/ (key[p] = key[q] /\ p <= q)
      BY ONLY <1>3
    <3> QED
      BY ONLY <1>2, <3>1
  <2>3. \A p, q \in P : <<p, q>> \in R /\ <<q, p>> \in R => p = q
    BY ONLY <1>2, <1>3
  <2>4. \A p, q, r \in P : <<p, q>> \in R /\ <<q, r>> \in R => <<p, r>> \in R
    BY ONLY <1>2, <1>3
  <2> QED
    BY ONLY <2>1, <2>2, <2>3, <2>4 DEF Order
<1>5. \A p \in P : Place(P, R, p) = Cardinality(after(p))
  <2>1. SUFFICES ASSUME NEW p \in P
                 PROVE  Place(P, R, p) = Cardinality(after(p))
    OBVIOUS
  <2>2. {q \in P : <<q, p>> \in R} = after(p)
    BY <1>1
  <2> QED
    BY <2>2 DEF Place
<1>6. /\ \A k \in 1 .. Cardinality(P) : \E p \in P : Cardinality(after(p)) = k
      /\ \A p \in P : Cardinality(after(p)) \in 1 .. Cardinality(P)
      /\ \A p, q \in P : Cardinality(after(p)) <= Cardinality(after(q)) => <<p, q>> \in R
  <2>1. /\ \A k \in 1 .. Cardinality(P) : \E p \in P : Place(P, R, p) = k
        /\ \A p \in P : Place(P, R, p) \in 1 .. Cardinality(P)
        /\ \A p, q \in P : Place(P, R, p) <= Place(P, R, q) => <<p, q>> \in R
    BY <1>4, Places
  <2> HIDE DEF after
  <2> QED
    BY ONLY <1>5, <2>1
<1>7. Cardinality(P) \in Nat
  BY FS_CardinalityType
<1>8. PICK at : at = [k \in 1 .. Cardinality(P) |->
                        CHOOSE p \in P : Cardinality(after(p)) = k]
  OBVIOUS
<1>9. K = [k \in 1 .. Cardinality(P) |-> D[at[k]]]
  BY <1>8 DEF Sorted
<1> HIDE DEF after
<1>10. \A k \in 1 .. Cardinality(P) : at[k] \in P /\ Cardinality(after(at[k])) = k
  BY <1>6, <1>8
<1>11. DOMAIN K = 1 .. Cardinality(P)
  BY <1>9
<1>12. at \in [DOMAIN K -> P]
  BY <1>8, <1>10, <1>11
<1>13. \A k \in DOMAIN K : K[k] = D[at[k]]
  BY <1>9, <1>11
<1>14. \A j, k \in DOMAIN K : at[j] = at[k] => j = k
  BY <1>10, <1>11
<1>15. ASSUME NEW p \in P
       PROVE  \E k \in DOMAIN K : at[k] = p
  <2>1. PICK k \in 1 .. Cardinality(P) : Cardinality(after(p)) = k
    BY <1>6
  <2>2. at[k] \in P /\ Cardinality(after(at[k])) = k /\ k <= k
    BY <1>7, <1>10
  <2>3. <<p, at[k]>> \in R /\ <<at[k], p>> \in R
    BY <1>6, <2>1, <2>2
  <2> QED
    BY <1>4, <1>11, <2>2, <2>3 DEF Order
<1>16. ASSUME NEW j \in DOMAIN K, NEW k \in DOMAIN K, j <= k
       PROVE  SortKey(K[j]) <= SortKey(K[k])
  <2>0. PICK a, b : a = at[j] /\ b = at[k]
    OBVIOUS
  <2>1. <<a, b>> \in R /\ a \in P /\ b \in P
    BY <1>6, <1>10, <1>11, <1>16, <2>0
  <2>2. key[a] <= key[b]
    BY ONLY <1>2, <1>3, <2>1
  <2>3. key[a] = SortKey(K[j]) /\ key[b] = SortKey(K[k])
    BY <1>0, <1>13, <2>0, <2>1
  <2> QED
    BY <2>2, <2>3
<1> QED
  <2>1. \A k \in DOMAIN K : \E p \in P : K[k] = D[p]
    BY <1>12, <1>13
  <2>2. \A j, k \in DOMAIN K : j <= k => SortKey(K[j]) <= SortKey(K[k])
    BY <1>16
  <2>3. \A p \in P : \E k \in DOMAIN K : at[k] = p
    BY <1>15
  <2> QED
    BY ONLY <1>7, <1>11, <1>12, <1>13, <1>14, <2>1, <2>2, <2>3

-----------------------------------------------------------------------------
(* The walk over the cards.                                                *)

\* What the walk makes of a card, of any of the results up to the one before.
OneCard(s, all, c, results) ==
  IF s.cards[c].amd \/ all
  THEN UNION {AddCard(s, w, c) : w \in results} ELSE results
NotWalked(s) == {[devices |-> <<>>, nodes |-> Listed(s)]}

\* The walk is the recursion its definition states.
LEMMA WalkGoes ==
  ASSUME NEW s, NEW all, Len(s.cards) \in Nat, NEW W, W = Walked(s, all)
  PROVE  /\ W[0] = NotWalked(s)
         /\ \A c \in 1 .. Len(s.cards) : W[c] = OneCard(s, all, c, W[c - 1])
<1> DEFINE N == Len(s.cards)
           G(c, X) == OneCard(s, all, c, X)
           F(V, n) == [c \in 0 .. n |->
                         IF c = 0 THEN NotWalked(s) ELSE G(c, V[c - 1])]
           Good == {n \in Nat : \E V : V = F(V, n)}
<1>1. 0 \in Good
  <2>1. PICK V : V = [c \in 0 .. 0 |-> NotWalked(s)]
    OBVIOUS
  <2>2. V = F(V, 0)
    BY <2>1
  <2> QED
    BY <2>2
<1>2. ASSUME NEW n \in Nat, n \in Good
      PROVE  n + 1 \in Good
  <2>1. PICK V : V = F(V, n)
    BY <1>2
  <2>2. PICK U : U = [c \in 0 .. n + 1 |->
                        IF c = n + 1 THEN G(n + 1, V[n]) ELSE V[c]]
    OBVIOUS
  <2> HIDE DEF G
  <2>3. ASSUME NEW c \in 0 .. n + 1
        PROVE  U[c] = IF c = 0 THEN NotWalked(s) ELSE G(c, U[c - 1])
    <3>1. CASE c = 0
      <4>1. U[0] = V[0] /\ V[0] = NotWalked(s)
        BY <2>1, <2>2
      <4> QED
        BY <3>1, <4>1
    <3>2. CASE c \in 1 .. n
      <4>1. c - 1 \in 0 .. n /\ c \in 0 .. n /\ c # n + 1 /\ c - 1 # n + 1
        BY <3>2
      <4>2. U[c] = V[c] /\ U[c - 1] = V[c - 1]
        BY <2>2, <4>1
      <4>3. V[c] = G(c, V[c - 1])
        BY <2>1, <3>2, <4>1
      <4> QED
        BY <3>2, <4>2, <4>3
    <3>3. CASE c = n + 1
      <4>1. U[c] = G(n + 1, V[n])
        BY <2>2, <3>3
      <4>2. c - 1 = n /\ U[n] = V[n]
        BY <2>2, <3>3
      <4> QED
        BY <3>3, <4>1, <4>2
    <3> QED
      BY <3>1, <3>2, <3>3
  <2>4. U = F(U, n + 1)
    BY <2>2, <2>3
  <2> QED
    BY <2>4
<1>3. \E V : V = F(V, N)
  <2> HIDE DEF F
  <2>1. Nat \subseteq Good
    BY ONLY <1>1, <1>2, SetInduction
  <2> QED
    BY <2>1
<1>4. W = CHOOSE V : V = F(V, N)
  BY DEF Walked, OneCard, NotWalked
<1>5. W = F(W, N)
  <2> HIDE DEF F
  <2> QED
    BY <1>3, <1>4
<1> HIDE DEF G
<1>6. 0 \in 0 .. N /\ \A c \in 1 .. N : c \in 0 .. N /\ c # 0
  OBVIOUS
<1>7. W[0] = NotWalked(s) /\ \A c \in 1 .. N : W[c] = G(c, W[c - 1])
  BY <1>5, <1>6
<1> QED
  BY <1>7 DEF G

\* d lists the elements of S, each once.
Lists(d, S) ==
  /\ d \in Seq(S)
  /\ \A p, q \in DOMAIN d : d[p] = d[q] => p = q
  /\ \A e \in S : \E p \in DOMAIN d : d[p] = e

LEMMA ListsMore ==
  ASSUME NEW d, NEW S, NEW e, NEW T, Lists(d, S), Lists(e, T), S \cap T = {}
  PROVE  Lists(d \o e, S \cup T)
<1>1. /\ Len(d) \in Nat /\ DOMAIN d = 1 .. Len(d)
      /\ Len(e) \in Nat /\ DOMAIN e = 1 .. Len(e)
      /\ \A p \in DOMAIN d : d[p] \in S
      /\ \A p \in DOMAIN e : e[p] \in T
  BY DEF Lists
<1>2. d \in Seq(S \cup T) /\ e \in Seq(S \cup T)
  BY DEF Lists
<1>3. PICK f : f = d \o e
  OBVIOUS
<1>4. /\ f \in Seq(S \cup T) /\ Len(f) = Len(d) + Len(e)
      /\ DOMAIN f = 1 .. Len(d) + Len(e)
      /\ \A p \in 1 .. Len(d) + Len(e) :
           f[p] = IF p <= Len(d) THEN d[p] ELSE e[p - Len(d)]
  BY <1>1, <1>2, <1>3
<1>5. ASSUME NEW p \in DOMAIN f
      PROVE  \/ p \in DOMAIN d /\ f[p] = d[p] /\ f[p] \in S
             \/ /\ p \notin DOMAIN d /\ p - Len(d) \in DOMAIN e
                /\ f[p] = e[p - Len(d)] /\ f[p] \in T
  BY <1>1, <1>4
<1>6. ASSUME NEW p \in DOMAIN f, NEW q \in DOMAIN f, f[p] = f[q]
      PROVE  p = q
  <2>1. CASE p \in DOMAIN d /\ q \in DOMAIN d
    BY <1>5, <1>6, <2>1 DEF Lists
  <2>2. CASE p \notin DOMAIN d /\ q \notin DOMAIN d
    <3>1. p - Len(d) \in DOMAIN e /\ q - Len(d) \in DOMAIN e
          /\ e[p - Len(d)] = e[q - Len(d)]
      BY <1>5, <1>6, <2>2
    <3>2. p - Len(d) = q - Len(d)
      BY <3>1 DEF Lists
    <3>3. p \in Int /\ q \in Int
      BY <1>1, <1>4
    <3> QED
      BY <1>1, <3>2, <3>3
  <2> QED
    BY <1>5, <1>6, <2>1, <2>2
<1>7. ASSUME NEW x \in S \cup T
      PROVE  \E p \in DOMAIN f : f[p] = x
  <2>1. CASE x \in S
    <3>1. PICK p \in DOMAIN d : d[p] = x
      BY <2>1 DEF Lists
    <3>2. p \in DOMAIN f /\ f[p] = x
      BY <1>1, <1>4, <3>1
    <3> QED
      BY <3>2
  <2>2. CASE x \in T
    <3>1. PICK p \in DOMAIN e : e[p] = x
      BY <2>2 DEF Lists
    <3>2. p + Len(d) \in DOMAIN f /\ f[p + Len(d)] = x
      BY <1>1, <1>4, <3>1
    <3> QED
      BY <3>2
  <2> QED
    BY <2>1, <2>2
<1> QED
  BY <1>3, <1>4, <1>6, <1>7 DEF Lists

LEMMA ListsOne ==
  ASSUME NEW d, NEW S, NEW x, Lists(d, S), x \notin S
  PROVE  Lists(Append(d, x), S \cup {x})
<1>1. Lists(<<x>>, {x})
  BY DEF Lists
<1>2. Lists(d \o <<x>>, S \cup {x})
  BY <1>1, ListsMore
<1>3. d \in Seq(S \cup {x})
  BY DEF Lists
<1>4. Append(d, x) = d \o <<x>>
  BY <1>3, AppendProperties, ConcatProperties, SeqEqual
<1> QED
  BY <1>2, <1>4

\* The cards up to c that the walk counts, the nodes of a card that are its
\* further partitions, and what is in the list after card c.
Shown(s, all, c) == {k \in 1 .. c : s.cards[k].amd \/ all}
SameAs(s, k) == {n \in Listed(s) : s.nodes[n].uid = s.cards[k].uid}
Rest(s, k) ==
  IF s.cards[k].uid = 0 \/ SameAs(s, k) = {} THEN {}
  ELSE SameAs(s, k) \ {Min(SameAs(s, k))}
Entry(k, b) == [card |-> k, bdf |-> b]
Parts(s, k) == {Entry(k, s.nodes[n].bdf) : n \in Rest(s, k)}
Entries(s, all, c) ==
  {Entry(k, NoBdf) : k \in Shown(s, all, c)}
    \cup UNION {Parts(s, k) : k \in Shown(s, all, c)}

LEMMA EntryFacts ==
  /\ \A k, b : Entry(k, b).card = k /\ Entry(k, b).bdf = b
  /\ \A k, l, b, e : Entry(k, b) = Entry(l, e) => k = l /\ b = e
BY DEF Entry

\* The parts of WellFormed, in the words of this section.
LEMMA Forms ==
  ASSUME NEW s, WellFormed(s)
  PROVE  /\ Len(s.cards) \in Nat /\ DOMAIN s.cards = 1 .. Len(s.cards)
         /\ Len(s.nodes) \in Nat /\ DOMAIN s.nodes = 1 .. Len(s.nodes)
         /\ \A n \in DOMAIN s.nodes :
              /\ s.nodes[n].gpu \in Nat /\ s.nodes[n].bdf.bus \in Nat
              /\ s.nodes[n].bdf.fn \in Nat
              /\ s.nodes[n].cus \in Nat
              /\ DOMAIN s.nodes[n].links \subseteq DOMAIN s.nodes
              /\ \A m \in DOMAIN s.nodes[n].links : s.nodes[n].links[m].weight \in Nat
         /\ \A n \in GpuNodes(s) : s.nodes[n].bdf # NoBdf
         /\ \A m, n \in GpuNodes(s) :
              \/ s.nodes[m].bdf = s.nodes[n].bdf
              \/ s.nodes[m].gpu = s.nodes[n].gpu
              => m = n
         /\ \A c, e \in DOMAIN s.cards :
              /\ s.cards[c].amd /\ s.cards[e].amd
              /\ \/ s.cards[c].bdf = s.cards[e].bdf
                 \/ s.cards[c].uid = s.cards[e].uid /\ s.cards[c].uid # 0
              => c = e
         /\ \A c \in DOMAIN s.cards : ~s.cards[c].amd =>
              /\ s.cards[c].uid = 0
              /\ \A n \in GpuNodes(s) : s.cards[c].bdf # s.nodes[n].bdf
         /\ \A c \in DOMAIN s.cards : \A n \in SameAs(s, c) :
              s.cards[c].amd /\ s.cards[c].uid # 0 =>
                /\ n = Min(SameAs(s, c)) => s.nodes[n].bdf = s.cards[c].bdf
                /\ n # Min(SameAs(s, c)) => \A e \in DOMAIN s.cards :
                     s.cards[e].amd => s.nodes[n].bdf # s.cards[e].bdf
<1> DEFINE Amd == {c \in DOMAIN s.cards : s.cards[c].amd}
<1>1. /\ Len(s.cards) \in Nat /\ DOMAIN s.cards = 1 .. Len(s.cards)
      /\ Len(s.nodes) \in Nat /\ DOMAIN s.nodes = 1 .. Len(s.nodes)
  BY DEF WellFormed
<1>0. \A n \in DOMAIN s.nodes :
        /\ {s.nodes[n].gpu, s.nodes[n].bdf.bus, s.nodes[n].bdf.fn, s.nodes[n].cus}
             \subseteq Nat
        /\ DOMAIN s.nodes[n].links \subseteq DOMAIN s.nodes
        /\ \A m \in DOMAIN s.nodes[n].links : s.nodes[n].links[m].weight \in Nat
  BY Zenon DEF WellFormed
<1>2. /\ \A n \in GpuNodes(s) : s.nodes[n].bdf # NoBdf
      /\ \A m, n \in GpuNodes(s) :
           \/ s.nodes[m].bdf = s.nodes[n].bdf
           \/ s.nodes[m].gpu = s.nodes[n].gpu
           => m = n
  BY Zenon DEF WellFormed
<1>3. \A c, e \in Amd :
        \/ s.cards[c].bdf = s.cards[e].bdf
        \/ s.cards[c].uid = s.cards[e].uid /\ s.cards[c].uid # 0
        => c = e
  BY Zenon DEF WellFormed
<1>4. \A c \in DOMAIN s.cards \ Amd :
        /\ s.cards[c].uid = 0
        /\ \A n \in GpuNodes(s) : s.cards[c].bdf # s.nodes[n].bdf
  BY Zenon DEF WellFormed
<1>5. \A c \in Amd : \A n \in SameAs(s, c) : s.cards[c].uid # 0 =>
        IF n = Min(SameAs(s, c)) THEN s.nodes[n].bdf = s.cards[c].bdf
        ELSE \A e \in Amd : s.nodes[n].bdf # s.cards[e].bdf
  BY Zenon DEF WellFormed, SameAs
<1>6. \A c \in DOMAIN s.cards : s.cards[c].amd <=> c \in Amd
  OBVIOUS
<1> HIDE DEF Amd
<1>7. \A c, e \in DOMAIN s.cards :
        /\ s.cards[c].amd /\ s.cards[e].amd
        /\ \/ s.cards[c].bdf = s.cards[e].bdf
           \/ s.cards[c].uid = s.cards[e].uid /\ s.cards[c].uid # 0
        => c = e
  BY ONLY <1>3, <1>6
<1>8. \A c \in DOMAIN s.cards : ~s.cards[c].amd =>
        /\ s.cards[c].uid = 0
        /\ \A n \in GpuNodes(s) : s.cards[c].bdf # s.nodes[n].bdf
  BY ONLY <1>4, <1>6
<1>9. \A c \in DOMAIN s.cards : \A n \in SameAs(s, c) :
        s.cards[c].amd /\ s.cards[c].uid # 0 =>
          /\ n = Min(SameAs(s, c)) => s.nodes[n].bdf = s.cards[c].bdf
          /\ n # Min(SameAs(s, c)) => \A e \in DOMAIN s.cards :
               s.cards[e].amd => s.nodes[n].bdf # s.cards[e].bdf
  BY ONLY <1>5, <1>6
<1> QED
  BY ONLY <1>0, <1>1, <1>2, <1>7, <1>8, <1>9

\* A listed node is a GPU; there are finitely many.
LEMMA ListedFacts ==
  ASSUME NEW s, WellFormed(s)
  PROVE  /\ Listed(s) \subseteq GpuNodes(s) /\ GpuNodes(s) \subseteq DOMAIN s.nodes
         /\ DOMAIN s.nodes \subseteq Nat
         /\ \A T \in SUBSET DOMAIN s.nodes : IsFiniteSet(T)
<1>1. /\ Len(s.nodes) \in Nat /\ DOMAIN s.nodes = 1 .. Len(s.nodes)
      /\ \A n \in DOMAIN s.nodes : s.nodes[n].gpu \in Nat
  BY Forms
<1>2. ASSUME NEW n \in Listed(s)
      PROVE  n \in GpuNodes(s)
  <2>1. n \in DOMAIN s.nodes /\ s.nodes[n].gpu # 0 /\ s.nodes[n].seen
    BY <1>1 DEF Listed
  <2> QED
    BY <1>1, <2>1 DEF GpuNodes, ReadKFDGpuId, KFDNodeSupported
<1>3. IsFiniteSet(DOMAIN s.nodes)
  BY <1>1, FS_Interval
<1> QED
  BY <1>1, <1>2, <1>3, FS_Subset DEF GpuNodes

\* The partitions of a card, as a list.
LEMMA PartsListed ==
  ASSUME NEW s, WellFormed(s), NEW c, NEW nodes, nodes = Rest(s, c), NEW P,
         P = [k \in 1 .. Cardinality(nodes) |->
                [card |-> c, bdf |-> s.nodes[Ascending(nodes)[k]].bdf]]
  PROVE  Lists(P, Parts(s, c))
<1>1. nodes \subseteq GpuNodes(s) /\ nodes \subseteq Nat /\ IsFiniteSet(nodes)
  BY ListedFacts DEF Rest, SameAs
<1>2. PICK A, N : A = Ascending(nodes) /\ N = Cardinality(nodes)
  OBVIOUS
<1>3. /\ N \in Nat
      /\ \A k \in 1 .. N : A[k] \in nodes
      /\ \A j, k \in 1 .. N : A[j] = A[k] => j = k
      /\ \A n \in nodes : \E k \in 1 .. N : A[k] = n
  BY <1>1, <1>2, AscendingFacts, FS_CardinalityType
<1>4. P = [k \in 1 .. N |-> Entry(c, s.nodes[A[k]].bdf)]
  BY <1>2 DEF Entry
<1>5. Parts(s, c) = {Entry(c, s.nodes[n].bdf) : n \in nodes}
  BY DEF Parts
<1>6. DOMAIN P = 1 .. N /\ P = [k \in 1 .. N |-> P[k]]
  BY <1>4
<1>7. P \in Seq(Parts(s, c))
  <2>1. ASSUME NEW k \in 1 .. N
        PROVE  P[k] \in Parts(s, c)
    <3>1. P[k] = Entry(c, s.nodes[A[k]].bdf)
      BY <1>4
    <3>2. A[k] \in nodes
      BY <1>3
    <3> QED
      BY ONLY <1>5, <3>1, <3>2
  <2>2. P \in [1 .. N -> Parts(s, c)]
    BY ONLY <1>6, <2>1
  <2>3. N \in Nat
    BY <1>3
  <2> QED
    BY ONLY <2>2, <2>3
<1>8. ASSUME NEW j \in 1 .. N, NEW k \in 1 .. N, P[j] = P[k]
      PROVE  j = k
  <2>1. s.nodes[A[j]].bdf = s.nodes[A[k]].bdf
    <3>1. P[j] = Entry(c, s.nodes[A[j]].bdf) /\ P[k] = Entry(c, s.nodes[A[k]].bdf)
      BY <1>4
    <3> QED
      BY <1>8, <3>1, EntryFacts
  <2>2. A[j] \in GpuNodes(s) /\ A[k] \in GpuNodes(s)
    BY <1>1, <1>3
  <2>3. A[j] = A[k]
    BY <2>1, <2>2, Forms
  <2> QED
    BY <1>3, <2>3
<1>9. ASSUME NEW e \in Parts(s, c)
      PROVE  \E k \in 1 .. N : P[k] = e
  <2>1. PICK n \in nodes : e = Entry(c, s.nodes[n].bdf)
    BY <1>5
  <2>2. PICK k \in 1 .. N : A[k] = n
    BY <1>3
  <2> QED
    BY <1>4, <2>1, <2>2
<1> QED
  <2>1. \A j, k \in DOMAIN P : P[j] = P[k] => j = k
    BY ONLY <1>6, <1>8
  <2>2. \A e \in Parts(s, c) : \E k \in DOMAIN P : P[k] = e
    BY ONLY <1>6, <1>9
  <2> QED
    BY ONLY <1>7, <2>1, <2>2 DEF Lists

State(d, m) == [devices |-> d, nodes |-> m]
LEMMA StateFields ==
  \A d, m : State(d, m).devices = d /\ State(d, m).nodes = m
BY DEF State

LEMMA StateAdds ==
  ASSUME NEW d, NEW m, NEW x, NEW b
  PROVE  AddToDeviceList(State(d, m), x, b) = State(Append(d, Entry(x, b)), m)
<1>1. PICK e : e = Entry(x, b)
  OBVIOUS
<1>2. AddToDeviceList(State(d, m), x, b) =
        [State(d, m) EXCEPT !.devices = Append(@, e)]
  BY <1>1 DEF AddToDeviceList, Entry
<1>3. [State(d, m) EXCEPT !.devices = Append(@, e)] = State(Append(d, e), m)
  BY ONLY DEF State
<1> QED
  BY <1>1, <1>2, <1>3

LEMMA StateErases ==
  ASSUME NEW d, NEW m, NEW s, NEW u
  PROVE  Erase(s, State(d, m), u) = State(d, {n \in m : s.nodes[n].uid # u})
BY DEF State, Erase

LEMMA StateNodes ==
  ASSUME NEW d, NEW m, NEW s, NEW x, NEW T, NEW P,
         P = [k \in 1 .. Cardinality(T) |->
                [card |-> x, bdf |-> s.nodes[Ascending(T)[k]].bdf]]
  PROVE  AddNodes(s, State(d, m), x, T) = State(d \o P, m)
<1>1. AddNodes(s, State(d, m), x, T) = [State(d, m) EXCEPT !.devices = @ \o P]
  BY DEF AddNodes
<1> QED
  BY ONLY <1>1 DEF State

\* A card was put into a list of S with its partitions, each once; of the
\* nodes m, those with the unique_id of another card stay for that one.
Added(s, c, m, S, w) ==
  \E e, l : /\ w = State(e, l)
            /\ Lists(e, (S \cup {Entry(c, NoBdf)}) \cup Parts(s, c))
            /\ l \subseteq Listed(s)
            /\ \A n \in m : s.nodes[n].uid \notin {0, s.cards[c].uid} => n \in l

LEMMA CardAdded ==
  ASSUME NEW s, WellFormed(s), NEW c, NEW d, NEW m, NEW S,
         Lists(d, S), \A e \in S : e.card # c,
         m \subseteq Listed(s),
         s.cards[c].uid # 0 => SameAs(s, c) \subseteq m,
         NEW w \in AddCard(s, State(d, m), c)
  PROVE  Added(s, c, m, S, w)
<1> DEFINE same == {n \in m : s.nodes[n].uid = s.cards[c].uid}
           a == Append(d, Entry(c, NoBdf))
           R == (S \cup {Entry(c, NoBdf)}) \cup Parts(s, c)
           Fine(e, l) == /\ Lists(e, R) /\ l \subseteq Listed(s)
                         /\ \A n \in m : s.nodes[n].uid \notin {0, s.cards[c].uid}
                                         => n \in l
           Left(u) == {n \in m : s.nodes[n].uid # u}
<1>1. Lists(a, S \cup {Entry(c, NoBdf)})
  <2>1. Entry(c, NoBdf) \notin S
    BY EntryFacts
  <2> QED
    BY <2>1, ListsOne
<1>2. s.cards[c].uid # 0 => same = SameAs(s, c)
  BY DEF SameAs
<1>3. Rest(s, c) = {} => Lists(a, R)
  <2>1. Rest(s, c) = {} => Parts(s, c) = {}
    BY DEF Parts
  <2>2. Parts(s, c) = {} => R = S \cup {Entry(c, NoBdf)}
    OBVIOUS
  <2> QED
    BY <1>1, <2>1, <2>2
<1>4. Lists(a, R) => Fine(a, m) /\ Fine(a, Left(0))
  OBVIOUS
<1>5. AddToDeviceList(State(d, m), c, NoBdf) = State(a, m)
  BY StateAdds
<1>6. Erase(s, State(a, m), 0) = State(a, Left(0))
  BY StateErases
<1> SUFFICES \E e, l : w = State(e, l) /\ Fine(e, l)
  BY DEF Added
<1>7. CASE Rest(s, c) = {} /\ w \in {State(a, m), State(a, Left(0))}
  <2> HIDE DEF Fine, a, Left
  <2> QED
    BY <1>3, <1>4, <1>7
<1>8. CASE m = {}
  <2>1. w = State(a, m)
    BY <1>5, <1>8, StateFields DEF AddCard
  <2>2. Rest(s, c) = {}
    BY <1>2, <1>8 DEF Rest
  <2> QED
    BY <1>7, <2>1, <2>2
<1>9. CASE m # {} /\ s.cards[c].uid = 0
  <2>1. w = State(a, Left(0))
    BY <1>5, <1>6, <1>9, StateFields DEF AddCard
  <2>2. Rest(s, c) = {}
    BY <1>9 DEF Rest
  <2> QED
    BY <1>7, <2>1, <2>2
<1>10. CASE m # {} /\ s.cards[c].uid # 0 /\ same = {}
  <2>1. w \in {State(a, m), State(a, Left(0))}
    BY <1>5, <1>6, <1>10, StateFields DEF AddCard
  <2>2. Rest(s, c) = {}
    BY <1>2, <1>10 DEF Rest
  <2> QED
    BY <1>7, <2>1, <2>2
<1>11. CASE m # {} /\ s.cards[c].uid # 0 /\ same # {}
  <2>1. PICK u : u = s.cards[c].uid
    OBVIOUS
  <2>2. PICK T : T = same \ {Min(same)}
    OBVIOUS
  <2>3. PICK P : P = [k \in 1 .. Cardinality(T) |->
                        [card |-> c, bdf |-> s.nodes[Ascending(T)[k]].bdf]]
    OBVIOUS
  <2>4. w = Erase(s, AddPartitions(s, State(a, m), c, same), u)
    BY <1>5, <1>11, <2>1, StateFields DEF AddCard
  <2>5. AddPartitions(s, State(a, m), c, same) = State(a \o P, m)
    <3>1. AddPartitions(s, State(a, m), c, same) = AddNodes(s, State(a, m), c, T)
      BY <2>2 DEF AddPartitions
    <3> QED
      BY <2>3, <3>1, StateNodes
  <2>6. w = State(a \o P, Left(u))
    BY <2>4, <2>5, StateErases
  <2>7. T = Rest(s, c)
    BY <1>2, <1>11, <2>2 DEF Rest
  <2>8. Lists(P, Parts(s, c))
    BY <2>3, <2>7, PartsListed
  <2>9. (S \cup {Entry(c, NoBdf)}) \cap Parts(s, c) = {}
    <3>1. \A e \in Parts(s, c) : e.card = c
      BY EntryFacts DEF Parts
    <3>2. Entry(c, NoBdf) \notin Parts(s, c)
      <4>1. \A n \in Rest(s, c) : n \in GpuNodes(s)
        BY ListedFacts DEF Rest, SameAs
      <4>2. \A n \in Rest(s, c) : s.nodes[n].bdf # NoBdf
        BY <4>1, Forms
      <4> QED
        BY <4>2, EntryFacts DEF Parts
    <3> QED
      BY <3>1, <3>2
  <2>10. Lists(a \o P, R)
    <3> HIDE DEF a
    <3> QED
      BY <1>1, <2>8, <2>9, ListsMore
  <2>11. Fine(a \o P, Left(u))
    BY <2>1, <2>10
  <2> HIDE DEF Fine, a, Left
  <2> QED
    BY <2>6, <2>11
<1> QED
  BY <1>8, <1>9, <1>10, <1>11

\* Up to card c the list has each card and each further partition once, and
\* the nodes of cards to come are all there.
WalkInv(s, all, c, w) ==
  \E d, m :
    /\ w = State(d, m) /\ Lists(d, Entries(s, all, c)) /\ m \subseteq Listed(s)
    /\ \A n \in Listed(s) :
         /\ s.nodes[n].uid # 0
         /\ \A k \in Shown(s, all, c) : s.cards[k].uid # s.nodes[n].uid
         => n \in m

LEMMA WalkStarts ==
  ASSUME NEW s, NEW all, NEW w \in NotWalked(s)
  PROVE  WalkInv(s, all, 0, w)
<1>1. Shown(s, all, 0) = {}
  BY DEF Shown
<1>2. Entries(s, all, 0) = {}
  BY <1>1 DEF Entries
<1>3. Lists(<<>>, {})
  BY DEF Lists
<1>4. w = State(<<>>, Listed(s))
  BY DEF NotWalked, State
<1> QED
  BY <1>2, <1>3, <1>4 DEF WalkInv

LEMMA WalkSteps ==
  ASSUME NEW s, WellFormed(s), NEW all, NEW c \in 1 .. Len(s.cards),
         NEW X, \A w \in X : WalkInv(s, all, c - 1, w),
         NEW v \in OneCard(s, all, c, X)
  PROVE  WalkInv(s, all, c, v)
<1>0. c \in Nat /\ c - 1 \in Nat /\ c \in DOMAIN s.cards
  BY Forms
<1>1. CASE ~(s.cards[c].amd \/ all)
  <2>1. Shown(s, all, c) = Shown(s, all, c - 1)
    BY <1>0, <1>1 DEF Shown
  <2>2. v \in X
    BY <1>1 DEF OneCard
  <2>3. Entries(s, all, c) = Entries(s, all, c - 1)
    BY <2>1 DEF Entries
  <2>4. WalkInv(s, all, c - 1, v)
    BY <2>2
  <2> QED
    BY <2>1, <2>3, <2>4 DEF WalkInv
<1>2. CASE s.cards[c].amd \/ all
  <2>1. PICK w \in X : v \in AddCard(s, w, c)
    BY <1>2 DEF OneCard
  <2>2. PICK S, U : S = Entries(s, all, c - 1) /\ U = Shown(s, all, c - 1)
    OBVIOUS
  <2>3. PICK d, m :
          /\ w = State(d, m) /\ Lists(d, S) /\ m \subseteq Listed(s)
          /\ \A n \in Listed(s) :
               /\ s.nodes[n].uid # 0
               /\ \A k \in U : s.cards[k].uid # s.nodes[n].uid
               => n \in m
    BY <2>1, <2>2 DEF WalkInv
  <2>4. Shown(s, all, c) = U \cup {c} /\ \A k \in U : k \in DOMAIN s.cards /\ k # c
    BY <1>0, <1>2, <2>2, Forms DEF Shown
  <2>5. \A e \in S : e.card # c
    <3>1. \A k \in U : Entry(k, NoBdf).card # c /\ \A e \in Parts(s, k) : e.card # c
      BY <2>4, EntryFacts DEF Parts
    <3> QED
      BY <2>2, <3>1 DEF Entries
  <2>6. ASSUME NEW k \in U, s.cards[c].uid # 0
        PROVE  s.cards[k].uid # s.cards[c].uid
    <3>1. k \in DOMAIN s.cards /\ k # c
      BY <2>4
    <3> QED
      BY <1>0, <2>6, <3>1, Forms
  <2>7. s.cards[c].uid # 0 => SameAs(s, c) \subseteq m
    BY <2>3, <2>6 DEF SameAs
  <2>8. v \in AddCard(s, State(d, m), c)
    BY <2>1, <2>3
  <2>9. Added(s, c, m, S, v)
    <3>1. Lists(d, S) /\ m \subseteq Listed(s) /\ WellFormed(s)
      BY <2>3
    <3> QED
      BY ONLY <3>1, <2>5, <2>7, <2>8, CardAdded
  <2>10. (S \cup {Entry(c, NoBdf)}) \cup Parts(s, c) = Entries(s, all, c)
    BY <2>2, <2>4 DEF Entries
  <2>11. PICK e, l : /\ v = State(e, l)
                     /\ Lists(e, (S \cup {Entry(c, NoBdf)}) \cup Parts(s, c))
                     /\ l \subseteq Listed(s)
                     /\ \A n \in m : s.nodes[n].uid \notin {0, s.cards[c].uid} => n \in l
    BY <2>9 DEF Added
  <2>12. ASSUME NEW n \in Listed(s), s.nodes[n].uid # 0,
                \A k \in Shown(s, all, c) : s.cards[k].uid # s.nodes[n].uid
         PROVE  n \in l
    <3>1. n \in m
      BY <2>3, <2>4, <2>12
    <3>2. s.cards[c].uid # s.nodes[n].uid
      BY <2>4, <2>12
    <3> QED
      BY <2>11, <2>12, <3>1, <3>2
  <2>13. Lists(e, Entries(s, all, c))
    BY <2>10, <2>11
  <2> QED
    BY <2>11, <2>12, <2>13 DEF WalkInv
<1> QED
  BY <1>1, <1>2

\* The lists that the walk may end with.
LEMMA WalkEnds ==
  ASSUME NEW s, WellFormed(s), NEW all, NEW d \in DiscoverAmdgpuDevices(s, all)
  PROVE  Lists(d, Entries(s, all, Len(s.cards)))
<1>1. PICK N, W : N = Len(s.cards) /\ W = Walked(s, all)
  OBVIOUS
<1>2. N \in Nat
  BY <1>1, Forms
<1>3. W[0] = NotWalked(s) /\ \A c \in 1 .. N : W[c] = OneCard(s, all, c, W[c - 1])
  BY <1>1, <1>2, WalkGoes
<1> DEFINE Good == {c \in Nat : c <= N => \A w \in W[c] : WalkInv(s, all, c, w)}
<1>4. 0 \in Good
  BY <1>3, WalkStarts
<1>5. ASSUME NEW c \in Nat, c \in Good
      PROVE  c + 1 \in Good
  <2>1. SUFFICES ASSUME c + 1 <= N PROVE \A w \in W[c + 1] : WalkInv(s, all, c + 1, w)
    OBVIOUS
  <2>2. PICK x, X : x = c + 1 /\ X = W[c]
    OBVIOUS
  <2>3. x \in 1 .. N /\ x - 1 = c /\ c <= N
    BY <1>2, <2>1, <2>2
  <2>4. \A w \in X : WalkInv(s, all, x - 1, w)
    BY <1>5, <2>2, <2>3
  <2>5. W[x] = OneCard(s, all, x, X)
    BY <1>3, <2>2, <2>3
  <2>6. \A v \in OneCard(s, all, x, X) : WalkInv(s, all, x, v)
    BY <1>1, <2>3, <2>4, WalkSteps
  <2> QED
    BY <2>2, <2>5, <2>6
<1>6. N \in Good
  <2> HIDE DEF Good
  <2> QED
    BY ONLY <1>2, <1>4, <1>5, SetInduction
<1>7. PICK w \in W[N] : d = w.devices
  BY <1>1 DEF DiscoverAmdgpuDevices
<1>8. WalkInv(s, all, N, w)
  BY <1>2, <1>6, <1>7
<1> QED
  BY <1>1, <1>7, <1>8, StateFields DEF WalkInv

-----------------------------------------------------------------------------
(* The devices that are found are those of the system.                     *)

\* The address that an entry of the list has in the end.
Address(s, e) == IF e.bdf = NoBdf THEN s.cards[e.card].bdf ELSE e.bdf

LEMMA RestFacts ==
  ASSUME NEW s, WellFormed(s), NEW k \in DOMAIN s.cards, NEW n \in Rest(s, k)
  PROVE  /\ s.cards[k].amd /\ s.cards[k].uid # 0 /\ s.nodes[n].uid = s.cards[k].uid
         /\ n \in GpuNodes(s) /\ n \in Listed(s)
         /\ \A e \in DOMAIN s.cards : s.cards[e].amd => s.nodes[n].bdf # s.cards[e].bdf
<1>1. /\ s.cards[k].uid # 0 /\ n \in SameAs(s, k) /\ n # Min(SameAs(s, k))
      /\ s.nodes[n].uid = s.cards[k].uid /\ n \in Listed(s)
  BY DEF Rest, SameAs
<1>2. s.cards[k].amd
  BY <1>1, Forms
<1>3. n \in GpuNodes(s)
  BY <1>1, ListedFacts
<1>4. \A e \in DOMAIN s.cards : s.cards[e].amd => s.nodes[n].bdf # s.cards[e].bdf
  BY <1>1, <1>2, Forms
<1> QED
  BY <1>1, <1>2, <1>3, <1>4

\* An entry with the address of a node is that of its card, or its own.
OfCard(s, n, e) ==
  \E k \in DOMAIN s.cards : /\ s.cards[k].amd /\ s.cards[k].bdf = s.nodes[n].bdf
                            /\ e = Entry(k, NoBdf)
OfPart(s, n, e) ==
  \E k \in DOMAIN s.cards : n \in Rest(s, k) /\ e = Entry(k, s.nodes[n].bdf)

LEMMA EntryOfNode ==
  ASSUME NEW s, WellFormed(s), NEW all, NEW e \in Entries(s, all, Len(s.cards)),
         NEW n \in GpuNodes(s), Address(s, e) = s.nodes[n].bdf
  PROVE  OfCard(s, n, e) \/ OfPart(s, n, e)
<1>0. Shown(s, all, Len(s.cards)) \subseteq DOMAIN s.cards
  BY Forms DEF Shown
<1>1. CASE \E k \in Shown(s, all, Len(s.cards)) : e = Entry(k, NoBdf)
  <2>1. PICK k \in DOMAIN s.cards : e = Entry(k, NoBdf)
    BY <1>0, <1>1
  <2>2. s.cards[k].bdf = s.nodes[n].bdf
    BY <2>1, EntryFacts DEF Address
  <2>3. s.cards[k].amd
    BY <2>2, Forms
  <2> QED
    BY <2>1, <2>2, <2>3 DEF OfCard
<1>2. CASE \E k \in Shown(s, all, Len(s.cards)) : e \in Parts(s, k)
  <2>1. PICK k \in DOMAIN s.cards : \E m \in Rest(s, k) : e = Entry(k, s.nodes[m].bdf)
    BY <1>0, <1>2 DEF Parts
  <2>2. PICK m \in Rest(s, k) : e = Entry(k, s.nodes[m].bdf)
    BY <2>1
  <2>3. m \in GpuNodes(s)
    BY RestFacts
  <2>4. s.nodes[m].bdf # NoBdf
    BY <2>3, Forms
  <2>5. s.nodes[m].bdf = s.nodes[n].bdf
    BY <2>2, <2>4, EntryFacts DEF Address
  <2>6. m = n
    BY <2>3, <2>5, Forms
  <2> QED
    BY <2>2, <2>6 DEF OfPart
<1> QED
  BY <1>1, <1>2 DEF Entries

LEMMA EntryHasCard ==
  ASSUME NEW s, WellFormed(s), NEW n, NEW e, OfCard(s, n, e) \/ OfPart(s, n, e)
  PROVE  HasCard(s, n)
<1>1. CASE OfCard(s, n, e)
  BY <1>1 DEF OfCard, HasCard
<1>2. CASE OfPart(s, n, e)
  <2>1. PICK k \in DOMAIN s.cards : n \in Rest(s, k)
    BY <1>2 DEF OfPart
  <2>2. /\ s.cards[k].amd /\ s.cards[k].uid # 0 /\ s.nodes[n].uid = s.cards[k].uid
        /\ n \in Listed(s)
    BY <2>1, RestFacts
  <2>3. \A m \in 1 .. n : s.nodes[m].seen
    BY <2>2 DEF Listed
  <2> QED
    BY <2>2, <2>3 DEF HasCard
<1> QED
  BY <1>1, <1>2

LEMMA OneEntry ==
  ASSUME NEW s, WellFormed(s), NEW n \in GpuNodes(s), NEW e, NEW f,
         OfCard(s, n, e) \/ OfPart(s, n, e), OfCard(s, n, f) \/ OfPart(s, n, f)
  PROVE  e = f
<1>1. CASE OfCard(s, n, e) /\ OfCard(s, n, f)
  BY <1>1, Forms DEF OfCard
<1>2. CASE OfPart(s, n, e) /\ OfPart(s, n, f)
  <2>1. PICK k \in DOMAIN s.cards : n \in Rest(s, k) /\ e = Entry(k, s.nodes[n].bdf)
    BY <1>2 DEF OfPart
  <2>2. PICK l \in DOMAIN s.cards : n \in Rest(s, l) /\ f = Entry(l, s.nodes[n].bdf)
    BY <1>2 DEF OfPart
  <2>3. /\ s.cards[k].amd /\ s.cards[l].amd /\ s.cards[k].uid # 0
        /\ s.cards[k].uid = s.cards[l].uid
    BY <2>1, <2>2, RestFacts
  <2>4. k = l
    BY <2>3, Forms
  <2> QED
    BY <2>1, <2>2, <2>4
<1>3. ~(OfCard(s, n, e) /\ OfPart(s, n, f)) /\ ~(OfCard(s, n, f) /\ OfPart(s, n, e))
  BY RestFacts DEF OfCard, OfPart
<1> QED
  BY <1>1, <1>2, <1>3

\* A node with a card has an entry.
LEMMA EntryThere ==
  ASSUME NEW s, WellFormed(s), NEW all, NEW n \in GpuNodes(s), HasCard(s, n)
  PROVE  \E e \in Entries(s, all, Len(s.cards)) : Address(s, e) = s.nodes[n].bdf
<1>0. s.nodes[n].bdf # NoBdf
  BY Forms
<1>1. PICK c \in DOMAIN s.cards :
        /\ s.cards[c].amd
        /\ \/ s.cards[c].bdf = s.nodes[n].bdf
           \/ /\ \A m \in 1 .. n : s.nodes[m].seen
              /\ s.cards[c].uid # 0 /\ s.cards[c].uid = s.nodes[n].uid
  BY DEF HasCard
<1>2. c \in Shown(s, all, Len(s.cards))
  BY <1>1, Forms DEF Shown
<1>3. CASE s.cards[c].bdf = s.nodes[n].bdf
  <2>1. Entry(c, NoBdf) \in Entries(s, all, Len(s.cards))
    BY <1>2 DEF Entries
  <2>2. Address(s, Entry(c, NoBdf)) = s.nodes[n].bdf
    BY <1>3, EntryFacts DEF Address
  <2> QED
    BY <2>1, <2>2
<1>4. CASE s.cards[c].bdf # s.nodes[n].bdf
  <2>1. n \in Listed(s)
    <3>1. n \in DOMAIN s.nodes /\ s.nodes[n].gpu # 0
      <4>1. n \in DOMAIN s.nodes
        BY ListedFacts
      <4>2. ReadKFDGpuId(s, n) > 0 /\ s.nodes[n].gpu \in Nat
        BY <4>1, Forms DEF GpuNodes
      <4> QED
        BY <4>1, <4>2 DEF ReadKFDGpuId, KFDNodeSupported, Absent
    <3> QED
      BY <1>1, <1>4, <3>1 DEF Listed
  <2>2. n \in SameAs(s, c) /\ s.cards[c].uid # 0
    BY <1>1, <1>4, <2>1 DEF SameAs
  <2>3. n # Min(SameAs(s, c))
    BY <1>1, <1>4, <2>2, Forms
  <2>4. n \in Rest(s, c)
    BY <2>2, <2>3 DEF Rest
  <2>5. Entry(c, s.nodes[n].bdf) \in Entries(s, all, Len(s.cards))
    BY <1>2, <2>4 DEF Entries, Parts
  <2>6. Address(s, Entry(c, s.nodes[n].bdf)) = s.nodes[n].bdf
    BY <1>0, EntryFacts DEF Address
  <2> QED
    BY <2>5, <2>6
<1> QED
  BY <1>3, <1>4

\* Such a node has exactly one place in the list.
OnceIn(s, d, n) ==
  \E p \in DOMAIN d : \A q \in DOMAIN d :
    Address(s, d[q]) = s.nodes[n].bdf <=> q = p
LEMMA OnePlace ==
  ASSUME NEW s, WellFormed(s), NEW all, NEW d,
         Lists(d, Entries(s, all, Len(s.cards))),
         NEW n \in GpuNodes(s), HasCard(s, n)
  PROVE  OnceIn(s, d, n)
<1>1. PICK e \in Entries(s, all, Len(s.cards)) : Address(s, e) = s.nodes[n].bdf
  BY EntryThere
<1>2. PICK p \in DOMAIN d : d[p] = e
  BY DEF Lists
<1>3. ASSUME NEW q \in DOMAIN d, Address(s, d[q]) = s.nodes[n].bdf
      PROVE  q = p
  <2>1. PICK f : f = d[q]
    OBVIOUS
  <2>2. f \in Entries(s, all, Len(s.cards)) /\ Address(s, f) = s.nodes[n].bdf
    BY <1>3, <2>1 DEF Lists
  <2>3. OfCard(s, n, f) \/ OfPart(s, n, f)
    BY <2>2, EntryOfNode
  <2>4. OfCard(s, n, e) \/ OfPart(s, n, e)
    BY <1>1, EntryOfNode
  <2>5. e = f
    BY <2>3, <2>4, OneEntry
  <2> QED
    BY <1>2, <2>1, <2>5 DEF Lists
<1> QED
  BY <1>1, <1>2, <1>3 DEF OnceIn

\* The KFD node of an address.
LEMMA NodeAt ==
  ASSUME NEW s, WellFormed(s), NEW kfd, kfd = DiscoverKFDNodes(s)
  PROVE  /\ \A b \in DOMAIN kfd : \E n \in GpuNodes(s) : b = s.nodes[n].bdf
         /\ \A n \in GpuNodes(s) :
              /\ s.nodes[n].bdf \in DOMAIN kfd
              /\ kfd[s.nodes[n].bdf] = KFDNode(s, n)
<1>1. DOMAIN kfd = {s.nodes[n].bdf : n \in GpuNodes(s)}
  BY DEF DiscoverKFDNodes
<1>2. ASSUME NEW n \in GpuNodes(s)
      PROVE  kfd[s.nodes[n].bdf] = KFDNode(s, n)
  <2>1. {m \in GpuNodes(s) : s.nodes[m].bdf = s.nodes[n].bdf} = {n}
    BY Forms
  <2>2. Max({n}) = n
    <3>1. n \in Nat
      BY ListedFacts
    <3> QED
      BY <3>1 DEF Max
  <2> QED
    BY <1>1, <2>1, <2>2 DEF DiscoverKFDNodes
<1> QED
  BY <1>1, <1>2

\* A node with what Initialize made of its links, for the device i.
Marked(node, i) == [node EXCEPT !.dev = i]
LinksOf(s, n) ==
  Linked(s, s.nodes[n].links)[Cardinality(DOMAIN s.nodes[n].links)]

\* What a node object says.
Says(s, n, v) ==
  LET l == LinksOf(s, n)
  IN /\ v.node = n /\ v.gpu = s.nodes[n].gpu
     /\ v.numa = l.numa /\ v.numa_weight = l.weight
     /\ v.direct = [m \in l.direct |-> s.nodes[n].links[m]]
     /\ v.cu_count = IF l.ended THEN 0 ELSE s.nodes[n].cus

LEMMA NodeFields ==
  ASSUME NEW s, NEW n
  PROVE  /\ Says(s, n, KFDNode(s, n))
         /\ \A i : /\ Says(s, n, Marked(KFDNode(s, n), i))
                   /\ Marked(KFDNode(s, n), i).dev = i
<1>1. PICK g, a, w, y, d, c :
        /\ g = s.nodes[n].gpu /\ a = LinksOf(s, n).numa /\ w = LinksOf(s, n).weight
        /\ y = IF LinksOf(s, n).numa = 0 THEN "none"
               ELSE s.nodes[n].links[LinksOf(s, n).numa].type
        /\ d = [m \in LinksOf(s, n).direct |-> s.nodes[n].links[m]]
        /\ c = IF LinksOf(s, n).ended THEN 0 ELSE s.nodes[n].cus
  OBVIOUS
<1>2. KFDNode(s, n) = [node |-> n, gpu |-> g, numa |-> a, numa_weight |-> w,
                       numa_type |-> y, direct |-> d, cu_count |-> c, dev |-> 0]
  BY <1>1, Zenon DEF KFDNode, LinksOf
<1>3. PICK r : r = KFDNode(s, n)
  OBVIOUS
<1>4. r = [node |-> n, gpu |-> g, numa |-> a, numa_weight |-> w,
           numa_type |-> y, direct |-> d, cu_count |-> c, dev |-> 0]
  BY ONLY <1>2, <1>3
<1>5. ASSUME NEW v, /\ v.node = n /\ v.gpu = g /\ v.numa = a /\ v.numa_weight = w
                    /\ v.direct = d /\ v.cu_count = c
      PROVE  Says(s, n, v)
  BY ONLY <1>1, <1>5 DEF Says
<1>6. /\ r.node = n /\ r.gpu = g /\ r.numa = a /\ r.numa_weight = w
      /\ r.direct = d /\ r.cu_count = c
  BY ONLY <1>4
<1>7. ASSUME NEW i, NEW v, v = [r EXCEPT !.dev = i]
      PROVE  /\ v.node = n /\ v.gpu = g /\ v.numa = a /\ v.numa_weight = w
             /\ v.direct = d /\ v.cu_count = c /\ v.dev = i
  BY ONLY <1>4, <1>7
<1>8. ASSUME NEW i
      PROVE  /\ Says(s, n, Marked(KFDNode(s, n), i))
             /\ Marked(KFDNode(s, n), i).dev = i
  <2>1. PICK v : v = [r EXCEPT !.dev = i]
    OBVIOUS
  <2>2. v = Marked(KFDNode(s, n), i)
    BY <1>3, <2>1 DEF Marked
  <2>3. Says(s, n, v) /\ v.dev = i
    BY <1>5, <1>7, <2>1
  <2> QED
    BY <2>2, <2>3
<1>9. Says(s, n, r)
  BY <1>5, <1>6
<1> QED
  BY <1>3, <1>8, <1>9

\* The list of devices with their addresses.
LEMMA FoundFacts ==
  ASSUME NEW s, NEW all, NEW c, NEW d, Lists(d, Entries(s, all, c)), NEW F,
         F = ConstructBDFID(s, d)
  PROVE  /\ DOMAIN F = DOMAIN d
         /\ \A p \in DOMAIN d : F[p].bdf = Address(s, d[p])
<1>1. DOMAIN F = DOMAIN d
  BY DEF ConstructBDFID
<1>2. ASSUME NEW p \in DOMAIN d
      PROVE  F[p].bdf = Address(s, d[p])
  <2>1. d[p] \in Entries(s, all, c)
    BY DEF Lists
  <2>2. PICK k, b : d[p] = Entry(k, b)
    BY <2>1 DEF Entries, Parts
  <2>3. PICK a : a = s.cards[d[p].card].bdf
    OBVIOUS
  <2>4. F[p] = IF d[p].bdf = NoBdf THEN [d[p] EXCEPT !.bdf = a] ELSE d[p]
    BY <1>1, <2>3 DEF ConstructBDFID
  <2>5. [d[p] EXCEPT !.bdf = a].bdf = a
    BY <2>2 DEF Entry
  <2> QED
    BY <2>3, <2>4, <2>5 DEF Address
<1> QED
  BY <1>1, <1>2

\* What a list of devices shows of a system: each device is one of its GPUs
\* with a card, they are in order, and all of those are there once.
GpuOf(s, v, n) == v.bdf = s.nodes[n].bdf /\ v.gpu = s.nodes[n].gpu
Shows(s, D) ==
  /\ \A i \in DOMAIN D : \E n \in GpuNodes(s) : GpuOf(s, D[i], n) /\ HasCard(s, n)
  /\ \A i, j \in DOMAIN D : i < j => SortKey(D[i]) <= SortKey(D[j])
  /\ \A n \in GpuNodes(s) : HasCard(s, n) =>
       \E i \in DOMAIN D : \A j \in DOMAIN D : D[j].bdf = s.nodes[n].bdf <=> j = i

LEMMA MatchedShows ==
  ASSUME NEW s, WellFormed(s), NEW all, NEW d \in DiscoverAmdgpuDevices(s, all),
         NEW kfd, kfd = DiscoverKFDNodes(s), NEW M, M = Matched(s, d, kfd)
  PROVE  Shows(s, M) /\ \E N \in Nat : DOMAIN M = 1 .. N
<1>1. PICK E : E = Entries(s, all, Len(s.cards))
  OBVIOUS
<1>2. Lists(d, E)
  BY <1>1, WalkEnds
<1>3. PICK F : F = ConstructBDFID(s, d)
  OBVIOUS
<1>4. DOMAIN F = DOMAIN d /\ \A p \in DOMAIN d : F[p].bdf = Address(s, d[p])
  BY <1>1, <1>2, <1>3, FoundFacts
<1>5. PICK P : P = {p \in DOMAIN F : F[p].bdf \in DOMAIN kfd}
  OBVIOUS
<1>6. PICK K : K = Sorted(F, P)
  OBVIOUS
<1>7. M = [i \in DOMAIN K |-> Device(K[i], kfd[K[i].bdf].gpu)]
  BY <1>3, <1>5, <1>6 DEF Matched
<1>8. P \subseteq DOMAIN d /\ P \subseteq Nat /\ IsFiniteSet(P)
  <2>1. Len(d) \in Nat /\ DOMAIN d = 1 .. Len(d)
    BY <1>2 DEF Lists
  <2>2. IsFiniteSet(1 .. Len(d))
    BY <2>1, FS_Interval
  <2>3. P \subseteq 1 .. Len(d)
    BY <1>4, <1>5, <2>1
  <2>4. IsFiniteSet(P)
    BY ONLY <2>2, <2>3, FS_Subset
  <2> QED
    BY <2>1, <2>3, <2>4
<1>9. ASSUME NEW p \in P
      PROVE  \E n \in GpuNodes(s) : F[p].bdf = s.nodes[n].bdf
  <2>1. F[p].bdf \in DOMAIN kfd
    BY <1>5
  <2> QED
    BY <2>1, NodeAt
<1>10. \A p \in P : SortKey(F[p]) \in Nat
  <2>1. SUFFICES ASSUME NEW p \in P PROVE SortKey(F[p]) \in Nat
    OBVIOUS
  <2>2. PICK n \in GpuNodes(s) : F[p].bdf = s.nodes[n].bdf
    BY <1>9
  <2>3. n \in DOMAIN s.nodes
    BY ListedFacts
  <2>4. F[p].bdf.bus \in Nat /\ F[p].bdf.fn \in Nat
    BY <2>2, <2>3, Forms
  <2> QED
    BY <2>4 DEF SortKey
<1>11. /\ DOMAIN K = 1 .. Cardinality(P) /\ Cardinality(P) \in Nat
       /\ \A j, k \in DOMAIN K : j <= k => SortKey(K[j]) <= SortKey(K[k])
  BY <1>6, <1>8, <1>10, SortedFacts
<1>12. PICK at \in [DOMAIN K -> P] :
         /\ \A k \in DOMAIN K : K[k] = F[at[k]]
         /\ \A j, k \in DOMAIN K : at[j] = at[k] => j = k
         /\ \A p \in P : \E k \in DOMAIN K : at[k] = p
  BY <1>6, <1>8, <1>10, SortedFacts
<1>13. DOMAIN M = DOMAIN K
  BY <1>7
<1>14. ASSUME NEW i \in DOMAIN K
       PROVE  /\ M[i].bdf = K[i].bdf /\ M[i].gpu = kfd[K[i].bdf].gpu
              /\ SortKey(M[i]) = SortKey(K[i])
  <2>1. PICK b, c, g : b = K[i].bdf /\ c = K[i].card /\ g = kfd[K[i].bdf].gpu
    OBVIOUS
  <2>2. M[i] = [card |-> c, bdf |-> b, gpu |-> g, fd |-> NoFile, file |-> NoFile]
    BY <1>7, <2>1 DEF Device
  <2>3. M[i].bdf = b /\ M[i].gpu = g
    BY ONLY <2>2
  <2> QED
    BY <2>1, <2>3 DEF SortKey
<1>15. \A i \in DOMAIN M :
         \E n \in GpuNodes(s) : GpuOf(s, M[i], n) /\ HasCard(s, n)
  <2>1. SUFFICES ASSUME NEW i \in DOMAIN K
                 PROVE  \E n \in GpuNodes(s) : GpuOf(s, M[i], n) /\ HasCard(s, n)
    BY <1>13
  <2>2. at[i] \in P
    BY <1>12
  <2>3. PICK n \in GpuNodes(s) : F[at[i]].bdf = s.nodes[n].bdf
    BY <1>9, <2>2
  <2>4. K[i].bdf = s.nodes[n].bdf
    BY <1>12, <2>3
  <2>5. kfd[s.nodes[n].bdf].gpu = s.nodes[n].gpu
    <3>1. PICK v : v = kfd[s.nodes[n].bdf]
      OBVIOUS
    <3>2. v = KFDNode(s, n)
      BY <3>1, NodeAt
    <3>3. Says(s, n, v)
      BY <3>2, NodeFields
    <3> QED
      BY <3>1, <3>3 DEF Says
  <2>6. PICK e : e = d[at[i]]
    OBVIOUS
  <2>7. e \in Entries(s, all, Len(s.cards)) /\ Address(s, e) = s.nodes[n].bdf
    BY <1>1, <1>2, <1>4, <1>8, <2>2, <2>3, <2>6 DEF Lists
  <2>8. HasCard(s, n)
    BY <2>7, EntryOfNode, EntryHasCard
  <2> QED
    BY <1>14, <2>4, <2>5, <2>8 DEF GpuOf
<1>16. ASSUME NEW i \in DOMAIN M, NEW j \in DOMAIN M, i < j
       PROVE  SortKey(M[i]) <= SortKey(M[j])
  <2>1. i \in DOMAIN K /\ j \in DOMAIN K /\ i <= j
    BY <1>11, <1>13, <1>16
  <2> QED
    BY <1>11, <1>14, <2>1
<1>17. ASSUME NEW n \in GpuNodes(s), HasCard(s, n)
       PROVE  \E i \in DOMAIN M : \A j \in DOMAIN M :
                M[j].bdf = s.nodes[n].bdf <=> j = i
  <2>1. PICK p \in DOMAIN d : \A q \in DOMAIN d :
          Address(s, d[q]) = s.nodes[n].bdf <=> q = p
    <3>1. Lists(d, Entries(s, all, Len(s.cards)))
      BY <1>1, <1>2
    <3>2. OnceIn(s, d, n)
      BY <1>17, <3>1, OnePlace
    <3> QED
      BY <3>2 DEF OnceIn
  <2>2. \A q \in DOMAIN d : F[q].bdf = s.nodes[n].bdf <=> q = p
    BY <1>4, <2>1
  <2>3. p \in P
    <3>1. F[p].bdf = s.nodes[n].bdf
      BY <2>2
    <3>2. s.nodes[n].bdf \in DOMAIN kfd
      BY NodeAt
    <3> QED
      BY <1>4, <1>5, <3>1, <3>2
  <2>4. PICK i \in DOMAIN K : at[i] = p
    BY <1>12, <2>3
  <2>5. ASSUME NEW j \in DOMAIN K
        PROVE  M[j].bdf = s.nodes[n].bdf <=> j = i
    <3>1. at[j] \in DOMAIN d
      BY <1>8, <1>12
    <3>2. M[j].bdf = F[at[j]].bdf
      BY <1>12, <1>14
    <3>3. M[j].bdf = s.nodes[n].bdf <=> at[j] = p
      BY <2>2, <3>1, <3>2
    <3> QED
      BY <1>12, <2>4, <3>3
  <2> QED
    BY <1>13, <2>4, <2>5
<1> QED
  <2>1. \E N \in Nat : DOMAIN M = 1 .. N
    BY <1>11, <1>13
  <2> QED
    BY <1>15, <1>16, <1>17, <2>1 DEF Shows

-----------------------------------------------------------------------------
(* The devices and the maps, from session to session.                      *)

\* The maps answer for the devices: each has its own node.
Answers(s, D, of, nodes) ==
  \A i \in DOMAIN D : \A n \in GpuNodes(s) : GpuOf(s, D[i], n) =>
    of[i] = n /\ nodes[D[i].gpu] = Marked(KFDNode(s, n), i)

\* What RocmSMI keeps of the system, whatever earlier sessions left.
TopoInv ==
  /\ sys \in Systems
  /\ refCount > 0 => Shows(sys, devices)
  /\ Answers(sys, devices, nodeOf, kfdNodes)

LEMMA OverNew ==
  ASSUME NEW new, NEW old, NEW x \in DOMAIN new
  PROVE  Over(new, old)[x] = new[x]
BY DEF Over

\* The maps of a successful Initialize.
LEMMA NumberedAnswers ==
  ASSUME NEW s, WellFormed(s), NEW all, NEW d \in DiscoverAmdgpuDevices(s, all),
         NEW kfd, kfd = DiscoverKFDNodes(s), NEW D, D = Matched(s, d, kfd),
         NEW of, NEW nodes,
         \A i \in DOMAIN D : of[i] = kfd[D[i].bdf].node,
         \A i \in DOMAIN D : \E m \in {j \in DOMAIN D : D[j].gpu = D[i].gpu} :
           nodes[D[i].gpu] = Marked(kfd[D[m].bdf], m)
  PROVE  Answers(s, D, of, nodes)
<1>1. Shows(s, D)
  BY MatchedShows
<1>2. ASSUME NEW i \in DOMAIN D, NEW n \in GpuNodes(s), GpuOf(s, D[i], n)
      PROVE  of[i] = n /\ nodes[D[i].gpu] = Marked(KFDNode(s, n), i)
  <2>1. D[i].bdf = s.nodes[n].bdf /\ D[i].gpu = s.nodes[n].gpu
    BY <1>2 DEF GpuOf
  <2>2. kfd[s.nodes[n].bdf] = KFDNode(s, n) /\ KFDNode(s, n).node = n
    <3>1. PICK v : v = KFDNode(s, n)
      OBVIOUS
    <3>2. Says(s, n, v)
      BY <3>1, NodeFields
    <3> QED
      BY <3>1, <3>2, NodeAt DEF Says
  <2>3. PICK m \in DOMAIN D : /\ D[m].gpu = D[i].gpu
                              /\ nodes[D[i].gpu] = Marked(kfd[D[m].bdf], m)
    OBVIOUS
  <2>4. PICK k \in GpuNodes(s) : GpuOf(s, D[m], k) /\ HasCard(s, k)
    BY <1>1 DEF Shows
  <2>5. s.nodes[k].gpu = s.nodes[n].gpu /\ D[m].bdf = s.nodes[k].bdf
    BY <2>1, <2>3, <2>4 DEF GpuOf
  <2>6. k = n
    BY <2>5, Forms
  <2>7. m = i
    <3>1. HasCard(s, n)
      BY <2>4, <2>6
    <3>2. PICK l \in DOMAIN D : \A j \in DOMAIN D : D[j].bdf = s.nodes[n].bdf <=> j = l
      BY <1>1, <3>1 DEF Shows
    <3> QED
      BY <2>1, <2>5, <2>6, <3>2
  <2> QED
    BY ONLY <2>1, <2>2, <2>3, <2>7, \A j \in DOMAIN D : of[j] = kfd[D[j].bdf].node
<1> QED
  BY <1>2 DEF Answers

LEMMA TopoStarts ==
  ASSUME NEW s \in Systems, s = sys, sys' = sys, NEW all, Initialize(all)
  PROVE  Shows(s, devices') /\ Answers(s, devices', nodeOf', kfdNodes')
<1>1. PICK d \in DiscoverAmdgpuDevices(sys, all) :
        LET kfd == DiscoverKFDNodes(sys) IN
          /\ devices' = Matched(sys, d, kfd)
          /\ nodeOf' = Over([i \in DOMAIN devices' |->
                                kfd[devices'[i].bdf].node], nodeOf)
          /\ kfdNodes' = Over(Numbered(d, kfd), kfdNodes)
  BY Zenon DEF Initialize
<1>2. PICK kfd : kfd = DiscoverKFDNodes(s)
  OBVIOUS
<1>3. d \in DiscoverAmdgpuDevices(s, all) /\ kfd = DiscoverKFDNodes(sys)
  BY <1>2
<1>4. /\ devices' = Matched(s, d, kfd)
      /\ nodeOf' = Over([i \in DOMAIN devices' |-> kfd[devices'[i].bdf].node],
                        nodeOf)
      /\ kfdNodes' = Over(Numbered(d, kfd), kfdNodes)
  BY Zenon, <1>1, <1>3
<1>5. PICK D, of, nodes : D = devices' /\ of = nodeOf' /\ nodes = kfdNodes'
  OBVIOUS
<1>6. WellFormed(s)
  BY SystemsAssumption DEF SystemsAssumption
<1>7. D = Matched(s, d, kfd)
  BY <1>4, <1>5
<1>8. Shows(s, D) /\ \E N \in Nat : DOMAIN D = 1 .. N
  BY <1>2, <1>3, <1>6, <1>7, MatchedShows
<1>9. ASSUME NEW i \in DOMAIN D
      PROVE  of[i] = kfd[D[i].bdf].node
  <2>1. PICK new : new = [j \in DOMAIN D |-> kfd[D[j].bdf].node]
    OBVIOUS
  <2>2. of = Over(new, nodeOf)
    BY <1>4, <1>5, <2>1
  <2>3. i \in DOMAIN new /\ new[i] = kfd[D[i].bdf].node
    BY <2>1
  <2> QED
    BY <2>2, <2>3, OverNew
<1>10. ASSUME NEW i \in DOMAIN D
      PROVE  \E m \in {j \in DOMAIN D : D[j].gpu = D[i].gpu} :
               nodes[D[i].gpu] = Marked(kfd[D[m].bdf], m)
  <2>1. PICK new : new = [g \in {D[j].gpu : j \in DOMAIN D} |->
                            LET m == Max({j \in DOMAIN D : D[j].gpu = g})
                            IN Marked(kfd[D[m].bdf], m)]
    OBVIOUS
  <2>2. new = Numbered(d, kfd)
    BY <1>5, <2>1 DEF Numbered, Marked
  <2>3. nodes = Over(new, kfdNodes)
    BY <1>4, <1>5, <2>2
  <2>4. PICK m : m = Max({j \in DOMAIN D : D[j].gpu = D[i].gpu})
    OBVIOUS
  <2>5. D[i].gpu \in DOMAIN new /\ new[D[i].gpu] = Marked(kfd[D[m].bdf], m)
    BY <2>1, <2>4
  <2>6. nodes[D[i].gpu] = Marked(kfd[D[m].bdf], m)
    BY <2>3, <2>5, OverNew
  <2>7. m \in {j \in DOMAIN D : D[j].gpu = D[i].gpu}
    <3>1. PICK N \in Nat : DOMAIN D = 1 .. N
      BY <1>8
    <3>2. PICK T : T = {j \in DOMAIN D : D[j].gpu = D[i].gpu}
      OBVIOUS
    <3>3. T \subseteq 1 .. N /\ T # {}
      BY <3>1, <3>2
    <3>4. Max(T) \in T
      BY ONLY <3>1, <3>3, MaxFacts
    <3> QED
      BY <2>4, <3>2, <3>4
  <2> QED
    BY <2>6, <2>7
<1>11. Answers(s, D, of, nodes)
  BY <1>2, <1>3, <1>6, <1>7, <1>9, <1>10, NumberedAnswers
<1> QED
  BY <1>5, <1>8, <1>11

\* So the list shows what it showed.
LEMMA Relabelled ==
  ASSUME NEW s, NEW D, NEW E, NEW of, NEW nodes, DOMAIN E = DOMAIN D,
         \A i \in DOMAIN D : E[i].bdf = D[i].bdf /\ E[i].gpu = D[i].gpu
  PROVE  /\ Shows(s, D) => Shows(s, E)
         /\ Answers(s, D, of, nodes) => Answers(s, E, of, nodes)
<1>1. \A i \in DOMAIN D : \A n : GpuOf(s, E[i], n) <=> GpuOf(s, D[i], n)
  BY DEF GpuOf
<1>2. \A i \in DOMAIN D : SortKey(E[i]) = SortKey(D[i])
  BY DEF SortKey
<1>3. ASSUME Shows(s, D)
      PROVE  Shows(s, E)
  <2>1. \A i \in DOMAIN E : \E n \in GpuNodes(s) : GpuOf(s, E[i], n) /\ HasCard(s, n)
    BY <1>1, <1>3 DEF Shows
  <2>2. \A i, j \in DOMAIN E : i < j => SortKey(E[i]) <= SortKey(E[j])
    BY <1>2, <1>3 DEF Shows
  <2>3. ASSUME NEW n \in GpuNodes(s), HasCard(s, n)
        PROVE  \E i \in DOMAIN E : \A j \in DOMAIN E :
                 E[j].bdf = s.nodes[n].bdf <=> j = i
    <3>1. PICK i \in DOMAIN D : \A j \in DOMAIN D :
            D[j].bdf = s.nodes[n].bdf <=> j = i
      BY <1>3, <2>3 DEF Shows
    <3> QED
      BY <3>1
  <2> QED
    BY <2>1, <2>2, <2>3 DEF Shows
<1>4. ASSUME Answers(s, D, of, nodes)
      PROVE  Answers(s, E, of, nodes)
  BY <1>1, <1>4 DEF Answers
<1> QED
  BY <1>3, <1>4

LEMMA TopoSame ==
  ASSUME TopoInv, UNCHANGED <<sys, devices, nodeOf, kfdNodes>>,
         refCount' > 0 => refCount > 0
  PROVE  TopoInv'
BY DEF TopoInv

LEMMA TopoNone ==
  ASSUME devices' = <<>>, sys' \in Systems, refCount' = 0
  PROVE  TopoInv'
BY DEF TopoInv, Answers

LEMMA TopoInit ==
  ASSUME FdInv, TopoInv, NEW t \in Threads, NEW all \in BOOLEAN, rsmi_init(t, all)
  PROVE  TopoInv'
<1>1. refCount \in Nat /\ sys \in Systems /\ sys' = sys
  BY DEF FdInv, TypeInv, TopoInv, rsmi_init
<1>2. CASE UNCHANGED <<devices, maps>> /\ refCount # 0
  <2>1. refCount > 0
    BY <1>1, <1>2
  <2>2. UNCHANGED <<sys, devices, nodeOf, kfdNodes>>
    BY <1>1, <1>2 DEF maps
  <2> QED
    BY <2>1, <2>2, TopoSame
<1>3. CASE refCount = 0 /\ Initialize(all)
  <2>1. PICK s \in Systems : s = sys
    BY <1>1
  <2>2. Shows(s, devices') /\ Answers(s, devices', nodeOf', kfdNodes')
    BY <1>1, <1>3, <2>1, TopoStarts
  <2>3. sys' = s
    BY <1>1, <2>1
  <2> QED
    BY <2>2, <2>3 DEF TopoInv
<1>4. CASE refCount = 0 /\ InitializeThrows
  <2>1. devices' = <<>> /\ refCount' = 0
    BY <1>4 DEF InitializeThrows, Cleanup
  <2> QED
    BY <1>1, <2>1, TopoNone
<1>5. MaxRef # 0
  BY SessionAssumption DEF SessionAssumption
<1>6. \/ UNCHANGED <<devices, maps>> /\ refCount # 0
      \/ refCount = 0 /\ Initialize(all)
      \/ refCount = 0 /\ InitializeThrows
  BY <1>5 DEF rsmi_init
<1> QED
  BY <1>2, <1>3, <1>4, <1>6

LEMMA TopoShutDown ==
  ASSUME FdInv, TopoInv, NEW t \in Threads, rsmi_shut_down(t)
  PROVE  TopoInv'
<1>1. /\ refCount \in Nat /\ sys \in Systems /\ sys' = sys
      /\ nodeOf' = nodeOf /\ kfdNodes' = kfdNodes
  BY DEF FdInv, TypeInv, TopoInv, rsmi_shut_down, maps
<1>2. CASE refCount = 1
  <2>1. devices' = <<>> /\ refCount' = 0
    BY <1>2 DEF rsmi_shut_down, Cleanup
  <2> QED
    BY <1>1, <2>1, TopoNone
<1>3. CASE refCount # 1
  <2>1. devices' = devices /\ (refCount' = refCount \/ refCount # 0)
    BY <1>3 DEF rsmi_shut_down
  <2>2. refCount' > 0 => refCount > 0
    BY <1>1, <2>1
  <2> QED
    BY <1>1, <2>1, <2>2, TopoSame
<1> QED
  BY <1>2, <1>3

LEMMA TopoNotifies ==
  ASSUME FdInv, TopoInv, NEW t \in Threads, NEW i \in DOMAIN devices,
         rsmi_event_notification_init(t, i) \/ rsmi_event_notification_stop(t, i)
  PROVE  TopoInv'
<1>1. UNCHANGED <<sys, refCount, nodeOf, kfdNodes>>
  BY DEF rsmi_event_notification_init, rsmi_event_notification_stop, maps
<1>2. /\ DOMAIN devices' = DOMAIN devices
      /\ \A j \in DOMAIN devices : /\ devices'[j].bdf = devices[j].bdf
                                   /\ devices'[j].gpu = devices[j].gpu
  BY SameGpus
<1>3. PICK s, D, E, of, nodes : /\ s = sys /\ D = devices /\ E = devices'
                                /\ of = nodeOf /\ nodes = kfdNodes
  OBVIOUS
<1>4. /\ Shows(s, D) => Shows(s, E)
      /\ Answers(s, D, of, nodes) => Answers(s, E, of, nodes)
  BY <1>2, <1>3, Relabelled
<1> QED
  BY <1>1, <1>3, <1>4 DEF TopoInv

\* The other steps leave the devices, the maps and the system alone.
LEMMA TopoFrame ==
  ASSUME \/ \E t \in Threads :
              \/ Query(t)
              \/ \E i \in DOMAIN devices : rsmi_event_notification_mask_set(t, i)
              \/ \E room \in 1 .. MaxRoom : rsmi_event_notification_get(t, room)
              \/ NextFile(t) \/ ReadEvent(t) \/ EndOfFile(t) \/ ReadClosed(t)
              \/ PollEnds(t) \/ GetReturns(t)
         \/ \E f \in Fds : Raise(f)
         \/ AppOpens
         \/ UNCHANGED vars
  PROVE  UNCHANGED <<sys, refCount, devices, maps>>
<1>1. ASSUME NEW t \in Threads, Query(t)
      PROVE  UNCHANGED <<sys, refCount, devices, maps>>
  BY ZenonT(30), <1>1 DEF Query, rsmi_test_refcount, rsmi_topo_get_link_weight,
     rsmi_compute_process_gpus_get, rsmi_compute_process_info_by_pid_get,
     rsmi_compute_process_info_by_device_get, MemoryOfNode, Answer
<1>2. ASSUME NEW t \in Threads,
             \/ \E i \in DOMAIN devices : rsmi_event_notification_mask_set(t, i)
             \/ \E room \in 1 .. MaxRoom : rsmi_event_notification_get(t, room)
      PROVE  UNCHANGED <<sys, refCount, devices, maps>>
  BY <1>2 DEF rsmi_event_notification_mask_set, rsmi_event_notification_get
<1>3. ASSUME NEW t \in Threads,
             \/ NextFile(t) \/ ReadEvent(t) \/ EndOfFile(t) \/ ReadClosed(t)
             \/ PollEnds(t) \/ GetReturns(t)
      PROVE  UNCHANGED <<sys, refCount, devices, maps>>
  <2>1. Getting(t)
    BY Zenon, <1>3 DEF NextFile, ReadEvent, EndOfFile, ReadClosed, PollEnds,
       GetReturns, PassEnded
  <2> QED
    BY <2>1 DEF Getting
<1>4. ASSUME (\E f \in Fds : Raise(f)) \/ AppOpens \/ UNCHANGED vars
      PROVE  UNCHANGED <<sys, refCount, devices, maps>>
  BY <1>4 DEF Raise, AppOpens, vars
<1> QED
  BY Zenon, <1>1, <1>2, <1>3, <1>4

LEMMA TopoStep ==
  ASSUME FdInv, TopoInv, [Next]_vars
  PROVE  TopoInv'
<1>1. ASSUME NEW s \in Systems, Repartition(s)
      PROVE  TopoInv'
  <2>1. devices = <<>>
    BY <1>1 DEF Repartition, FdInv, HandleInv
  <2> QED
    BY <1>1, <2>1, TopoNone DEF Repartition
<1>2. CASE UNCHANGED <<sys, refCount, devices, maps>>
  BY <1>2, TopoSame DEF maps
<1>3. CASE \E t \in Threads : \E all \in BOOLEAN : rsmi_init(t, all)
  BY <1>3, TopoInit
<1>4. CASE \E t \in Threads : rsmi_shut_down(t)
  BY <1>4, TopoShutDown
<1>5. CASE \E t \in Threads : \E i \in DOMAIN devices :
             rsmi_event_notification_init(t, i) \/ rsmi_event_notification_stop(t, i)
  BY <1>5, TopoNotifies
<1> QED
  BY Zenon, <1>1, <1>2, <1>3, <1>4, <1>5, TopoFrame DEF Next, Notify

\* What the invariant says of the devices and their nodes.
LEMMA TopoGpus ==
  ASSUME FdInv, TopoInv
  PROVE  EveryGpuOnce /\ NodesOfDevices
<1>1. PICK s \in Systems : s = sys
  BY DEF TopoInv
<1>2. WellFormed(s)
  BY SystemsAssumption DEF SystemsAssumption
<1>3. PICK D, of, nodes : D = devices /\ of = nodeOf /\ nodes = kfdNodes
  OBVIOUS
<1>4. Answers(s, D, of, nodes) /\ (refCount > 0 => Shows(s, D))
  BY <1>1, <1>3 DEF TopoInv
<1>5. refCount \in Nat /\ (refCount = 0 => D = <<>>)
  BY <1>3 DEF FdInv, TypeInv, HandleInv
<1>6. ASSUME NEW i \in DOMAIN D
      PROVE  \E n \in GpuNodes(s) :
               /\ D[i].bdf = s.nodes[n].bdf /\ of[i] = n
               /\ nodes[D[i].gpu].node = n /\ nodes[D[i].gpu].gpu = s.nodes[n].gpu
  <2>1. Shows(s, D)
    BY <1>4, <1>5
  <2>2. PICK n \in GpuNodes(s) : GpuOf(s, D[i], n)
    BY <2>1 DEF Shows
  <2>3. of[i] = n /\ nodes[D[i].gpu] = Marked(KFDNode(s, n), i)
    BY <1>4, <2>2 DEF Answers
  <2>4. PICK v : v = nodes[D[i].gpu]
    OBVIOUS
  <2>5. Says(s, n, v)
    BY <2>3, <2>4, NodeFields
  <2> QED
    BY <2>2, <2>3, <2>4, <2>5 DEF GpuOf, Says
<1>7. NodesOfDevices
  <2>1. ASSUME NEW i \in DOMAIN devices
        PROVE  /\ sys.nodes[nodeOf[i]].bdf = devices[i].bdf
               /\ NodeOf(i).node = nodeOf[i]
               /\ NodeOf(i).gpu = sys.nodes[nodeOf[i]].gpu
    <3>1. PICK n \in GpuNodes(s) :
            /\ D[i].bdf = s.nodes[n].bdf /\ of[i] = n
            /\ nodes[D[i].gpu].node = n /\ nodes[D[i].gpu].gpu = s.nodes[n].gpu
      BY <1>3, <1>6
    <3> QED
      BY <1>1, <1>3, <3>1 DEF NodeOf
  <2> QED
    BY <2>1 DEF NodesOfDevices
<1>8. ASSUME NEW n \in GpuNodes(s), HasCard(s, n), refCount > 0
      PROVE  Cardinality({i \in DOMAIN D : of[i] = n}) = 1
  <2>1. PICK i \in DOMAIN D : \A j \in DOMAIN D : D[j].bdf = s.nodes[n].bdf <=> j = i
    BY <1>4, <1>8 DEF Shows
  <2>2. ASSUME NEW j \in DOMAIN D
        PROVE  of[j] = n <=> j = i
    <3>1. PICK m \in GpuNodes(s) : D[j].bdf = s.nodes[m].bdf /\ of[j] = m
      BY <1>6
    <3>2. D[j].bdf = s.nodes[n].bdf <=> m = n
      BY <1>2, <3>1, Forms
    <3> QED
      BY <2>1, <3>1, <3>2
  <2>3. {j \in DOMAIN D : of[j] = n} = {i}
    BY <2>2
  <2> QED
    BY <2>3, FS_Singleton
<1>9. EveryGpuOnce
  <2>2. ASSUME refCount > 0, NEW n \in GpuNodes(sys), HasCard(sys, n)
        PROVE  Cardinality({i \in DOMAIN devices : nodeOf[i] = n}) = 1
    BY <1>1, <1>3, <1>8, <2>2
  <2>3. ASSUME refCount > 0, NEW i \in DOMAIN devices, NEW j \in DOMAIN devices, i < j
        PROVE  SortKey(devices[i]) <= SortKey(devices[j])
    BY <1>3, <1>4, <2>3 DEF Shows
  <2> QED
    BY <2>2, <2>3 DEF EveryGpuOnce
<1> QED
  BY <1>7, <1>9

LEMMA TopoBegins == Init => TopoInv
BY DEF Init, TopoInv, Answers

\* Between the first rsmi_init and the last rsmi_shut_down the list of devices
\* is that of the GPUs of the system: every card and every partition with a
\* card is there once, in the order of the addresses, whatever order sysfs
\* shows cards and nodes in; each device is answered for by its own KFD node,
\* whatever earlier sessions left in the maps that Cleanup keeps; and devices
\* live as long as somebody is in.  Callers do not initialise the library again
\* after a notification that failed, and the kernel shows what WellFormed says.
THEOREM DevicesAreTheGpus ==
  ASSUME ~CallerReinits
  PROVE  Spec => []DevicesAreGpus
<1>1. FdInv /\ TopoInv /\ [Next]_vars => TopoInv'
  BY TopoStep
<1>2. FdInv /\ TopoInv => EveryGpuOnce /\ NodesOfDevices
  BY TopoGpus
<1>3. DevicesCounted /\ EveryGpuOnce /\ NodesOfDevices => DevicesAreGpus
  BY DEF DevicesAreGpus
<1> QED
  BY <1>1, <1>2, <1>3, TopoBegins, FdInvariant, DevicesLiveAsCounted, PTL DEF Spec

-----------------------------------------------------------------------------
(* What the answers about links and processes come from.  First the two    *)
(* recursions: the links of a node, and the sums over the GPUs of a        *)
(* process.                                                                *)

\* The links of a node are the recursion their definition states.
LEMMA LinksGo ==
  ASSUME NEW s, NEW d, NEW N \in Nat, N = Cardinality(DOMAIN d), NEW L, L = Linked(s, d)
  PROVE  /\ L[0] = NoLink
         /\ \A k \in 1 .. N : L[k] = AddLink(s, d, L[k - 1], Ascending(DOMAIN d)[k])
<1> DEFINE G(k, X) == AddLink(s, d, X, Ascending(DOMAIN d)[k])
           F(V, n) == [k \in 0 .. n |-> IF k = 0 THEN NoLink ELSE G(k, V[k - 1])]
           Good == {n \in Nat : \E V : V = F(V, n)}
<1>1. 0 \in Good
  <2>1. PICK V : V = [k \in 0 .. 0 |-> NoLink]
    OBVIOUS
  <2>2. V = F(V, 0)
    BY <2>1
  <2> QED
    BY <2>2
<1>2. ASSUME NEW n \in Nat, n \in Good
      PROVE  n + 1 \in Good
  <2>1. PICK V : V = F(V, n)
    BY <1>2
  <2>2. PICK U : U = [k \in 0 .. n + 1 |-> IF k = n + 1 THEN G(n + 1, V[n]) ELSE V[k]]
    OBVIOUS
  <2> HIDE DEF G
  <2>3. ASSUME NEW k \in 0 .. n + 1
        PROVE  U[k] = IF k = 0 THEN NoLink ELSE G(k, U[k - 1])
    <3>1. CASE k = 0
      <4>1. U[0] = V[0] /\ V[0] = NoLink
        BY <2>1, <2>2
      <4> QED
        BY <3>1, <4>1
    <3>2. CASE k \in 1 .. n
      <4>1. k - 1 \in 0 .. n /\ k \in 0 .. n /\ k # n + 1 /\ k - 1 # n + 1
        BY <3>2
      <4>2. U[k] = V[k] /\ U[k - 1] = V[k - 1]
        BY <2>2, <4>1
      <4>3. V[k] = G(k, V[k - 1])
        BY <2>1, <3>2, <4>1
      <4> QED
        BY <3>2, <4>2, <4>3
    <3>3. CASE k = n + 1
      <4>1. U[k] = G(n + 1, V[n])
        BY <2>2, <3>3
      <4>2. k - 1 = n /\ U[n] = V[n]
        BY <2>2, <3>3
      <4> QED
        BY <3>3, <4>1, <4>2
    <3> QED
      BY <3>1, <3>2, <3>3
  <2>4. U = F(U, n + 1)
    BY <2>2, <2>3
  <2> QED
    BY <2>4
<1>3. \E V : V = F(V, N)
  <2> HIDE DEF F
  <2>1. Nat \subseteq Good
    BY ONLY <1>1, <1>2, SetInduction
  <2> QED
    BY <2>1
<1>4. L = CHOOSE V : V = F(V, N)
  BY DEF Linked
<1>5. L = F(L, N)
  <2> HIDE DEF F
  <2> QED
    BY <1>3, <1>4
<1> HIDE DEF G
<1>6. 0 \in 0 .. N /\ \A k \in 1 .. N : k \in 0 .. N /\ k # 0
  OBVIOUS
<1>7. L[0] = NoLink /\ \A k \in 1 .. N : L[k] = G(k, L[k - 1])
  BY <1>5, <1>6
<1> QED
  BY <1>7 DEF G

\* So are the sums over the GPUs of a process.
LEMMA SumsGo ==
  ASSUME NEW proc, NEW nodes, NEW width, NEW gpus, NEW N \in Nat, N = Len(gpus),
         NEW A, A = SumsOf(proc, nodes, width, gpus)
  PROVE  /\ A[0] = Nothing
         /\ \A k \in 1 .. N : A[k] = AddGpu(proc, nodes, width, A[k - 1], gpus[k])
<1> DEFINE G(k, X) == AddGpu(proc, nodes, width, X, gpus[k])
           F(V, n) == [k \in 0 .. n |-> IF k = 0 THEN Nothing ELSE G(k, V[k - 1])]
           Good == {n \in Nat : \E V : V = F(V, n)}
<1>1. 0 \in Good
  <2>1. PICK V : V = [k \in 0 .. 0 |-> Nothing]
    OBVIOUS
  <2>2. V = F(V, 0)
    BY <2>1
  <2> QED
    BY <2>2
<1>2. ASSUME NEW n \in Nat, n \in Good
      PROVE  n + 1 \in Good
  <2>1. PICK V : V = F(V, n)
    BY <1>2
  <2>2. PICK U : U = [k \in 0 .. n + 1 |-> IF k = n + 1 THEN G(n + 1, V[n]) ELSE V[k]]
    OBVIOUS
  <2> HIDE DEF G
  <2>3. ASSUME NEW k \in 0 .. n + 1
        PROVE  U[k] = IF k = 0 THEN Nothing ELSE G(k, U[k - 1])
    <3>1. CASE k = 0
      <4>1. U[0] = V[0] /\ V[0] = Nothing
        BY <2>1, <2>2
      <4> QED
        BY <3>1, <4>1
    <3>2. CASE k \in 1 .. n
      <4>1. k - 1 \in 0 .. n /\ k \in 0 .. n /\ k # n + 1 /\ k - 1 # n + 1
        BY <3>2
      <4>2. U[k] = V[k] /\ U[k - 1] = V[k - 1]
        BY <2>2, <4>1
      <4>3. V[k] = G(k, V[k - 1])
        BY <2>1, <3>2, <4>1
      <4> QED
        BY <3>2, <4>2, <4>3
    <3>3. CASE k = n + 1
      <4>1. U[k] = G(n + 1, V[n])
        BY <2>2, <3>3
      <4>2. k - 1 = n /\ U[n] = V[n]
        BY <2>2, <3>3
      <4> QED
        BY <3>3, <4>1, <4>2
    <3> QED
      BY <3>1, <3>2, <3>3
  <2>4. U = F(U, n + 1)
    BY <2>2, <2>3
  <2> QED
    BY <2>4
<1>3. \E V : V = F(V, N)
  <2> HIDE DEF F
  <2>1. Nat \subseteq Good
    BY ONLY <1>1, <1>2, SetInduction
  <2> QED
    BY <2>1
<1>4. A = CHOOSE V : V = F(V, N)
  BY DEF SumsOf
<1>5. A = F(A, N)
  <2> HIDE DEF F
  <2> QED
    BY <1>3, <1>4
<1> HIDE DEF G
<1>6. 0 \in 0 .. N /\ \A k \in 1 .. N : k \in 0 .. N /\ k # 0
  OBVIOUS
<1>7. A[0] = Nothing /\ \A k \in 1 .. N : A[k] = G(k, A[k - 1])
  BY <1>5, <1>6
<1> QED
  BY <1>7 DEF G

-----------------------------------------------------------------------------
(* One link after the other.                                               *)

\* One link, of a record of four fields.
Links(u, w, t, e) == [numa |-> u, weight |-> w, direct |-> t, ended |-> e]
Goes(e) == ~e

Adds(s, d, m, u, w, t, e, l) ==
  IF s.nodes[m].seen /\ Goes(e)
  THEN IF s.nodes[m].gpu # 0 THEN l = Links(u, w, t \cup {m}, e)
       ELSE IF u = 0 \/ d[m].weight < w THEN l = Links(m, d[m].weight, t, e)
       ELSE l = Links(u, w, t, e)
  ELSE \E x : l = Links(u, w, t, x)

\* A link adds a GPU, or brings the CPU nearer, or ends the initialisation.
LEMMA LinkAdded ==
  ASSUME NEW s, WellFormed(s), NEW d, NEW m \in DOMAIN s.nodes, NEW u, NEW w,
         NEW t, NEW e, NEW l, l = AddLink(s, d, Links(u, w, t, e), m)
  PROVE  Adds(s, d, m, u, w, t, e, l)
<1>1. s.nodes[m].gpu \in Nat
  BY Forms
<1>2. PICK a : a = Links(u, w, t, e)
  OBVIOUS
<1>3. /\ a.numa = u /\ a.weight = w /\ a.direct = t /\ a.ended = e
      /\ [a EXCEPT !.ended = TRUE] = Links(u, w, t, TRUE)
      /\ [a EXCEPT !.direct = t \cup {m}] = Links(u, w, t \cup {m}, e)
      /\ [a EXCEPT !.numa = m, !.weight = d[m].weight] = Links(m, d[m].weight, t, e)
  <2>1. PICK y, r, x : y = d[m].weight /\ r = t \cup {m} /\ x = TRUE
    OBVIOUS
  <2>2. /\ a.numa = u /\ a.weight = w /\ a.direct = t /\ a.ended = e
        /\ [a EXCEPT !.ended = x] = Links(u, w, t, x)
    BY ONLY <1>2 DEF Links
  <2>3. [a EXCEPT !.direct = r] = Links(u, w, r, e)
    BY <1>2 DEF Links
  <2>4. [a EXCEPT !.numa = m, !.weight = y] = Links(m, y, t, e)
    <3>1. PICK b : b = [a EXCEPT !.numa = m]
      OBVIOUS
    <3>2. b = Links(m, w, t, e)
      BY <1>2, <3>1 DEF Links
    <3>3. [b EXCEPT !.weight = y] = Links(m, y, t, e)
      BY <3>2 DEF Links
    <3> QED
      BY <3>1, <3>3
  <2> QED
    BY <2>1, <2>2, <2>3, <2>4
<1>4. ReadKFDGpuId(s, m) = IF s.nodes[m].seen THEN s.nodes[m].gpu ELSE Absent
  BY DEF ReadKFDGpuId, KFDNodeSupported
<1>5. ReadKFDGpuId(s, m) = Absent <=> ~s.nodes[m].seen
  BY <1>1, <1>4 DEF Absent
<1>6. l = IF e \/ ~s.nodes[m].seen THEN [a EXCEPT !.ended = TRUE]
          ELSE IF ReadKFDGpuId(s, m) # 0 THEN [a EXCEPT !.direct = a.direct \cup {m}]
          ELSE IF a.numa = 0 \/ d[m].weight < a.weight
          THEN [a EXCEPT !.numa = m, !.weight = d[m].weight] ELSE a
  BY <1>2, <1>3, <1>5, Zenon DEF AddLink
<1>7. e <=> ~Goes(e)
  BY DEF Goes
<1>8. CASE s.nodes[m].seen /\ Goes(e)
  BY <1>2, <1>3, <1>4, <1>6, <1>7, <1>8, Zenon DEF Adds
<1>9. CASE ~(s.nodes[m].seen /\ Goes(e))
  BY <1>3, <1>6, <1>7, <1>9, Zenon DEF Adds
<1> QED
  BY <1>8, <1>9

\* What the links to the nodes of V amount to: the GPUs, and the nearest CPU.
Nearest(s, d, V, u, w, t) ==
  LET C == {m \in V : s.nodes[m].gpu = 0}
  IN /\ t = {m \in V : s.nodes[m].gpu # 0}
     /\ C = {} => u = 0
     /\ C # {} => u \in C /\ w = d[u].weight /\ \A m \in C : w <= d[m].weight

\* The nearest CPU and the GPUs of one node more.
LEMMA NearestMore ==
  ASSUME NEW s, NEW d, NEW V, NEW m, NEW u, NEW w, NEW t, NEW x, NEW y, NEW z,
         \A k \in V \cup {m} : k # 0 /\ d[k].weight \in Nat,
         Nearest(s, d, V, u, w, t),
         s.nodes[m].gpu # 0 => x = u /\ y = w /\ z = t \cup {m},
         s.nodes[m].gpu = 0 =>
           /\ z = t
           /\ IF u = 0 \/ d[m].weight < w THEN x = m /\ y = d[m].weight
              ELSE x = u /\ y = w
  PROVE  Nearest(s, d, V \cup {m}, x, y, z)
<1>1. PICK C : C = {k \in V : s.nodes[k].gpu = 0}
  OBVIOUS
<1>2. /\ t = {k \in V : s.nodes[k].gpu # 0}
      /\ C = {} => u = 0
      /\ C # {} => u \in C /\ w = d[u].weight /\ \A k \in C : w <= d[k].weight
  BY <1>1, Zenon DEF Nearest
<1>3. CASE s.nodes[m].gpu # 0
  <2>1. {k \in V \cup {m} : s.nodes[k].gpu = 0} = C
    BY <1>1, <1>3
  <2>2. z = {k \in V \cup {m} : s.nodes[k].gpu # 0}
    BY <1>2, <1>3
  <2> QED
    BY <1>2, <1>3, <2>1, <2>2 DEF Nearest
<1>4. CASE s.nodes[m].gpu = 0
  <2>1. PICK E : E = {k \in V \cup {m} : s.nodes[k].gpu = 0}
    OBVIOUS
  <2>2. E = C \cup {m} /\ m \in E
    BY <1>1, <1>4, <2>1
  <2>3. z = {k \in V \cup {m} : s.nodes[k].gpu # 0}
    BY <1>2, <1>4
  <2>4. \A k \in E : d[k].weight \in Nat /\ k # 0
    BY <2>1
  <2>5. x \in E /\ y = d[x].weight /\ \A k \in E : y <= d[k].weight
    <3>1. CASE C = {}
      BY <1>2, <1>4, <2>2, <2>4, <3>1
    <3>2. CASE C # {} /\ d[m].weight < w
      <4>1. x = m /\ y = d[m].weight
        BY <1>4, <3>2
      <4> QED
        BY <1>2, <2>2, <2>4, <3>2, <4>1
    <3>3. CASE C # {} /\ ~(d[m].weight < w)
      <4>1. u \in C /\ w = d[u].weight /\ \A k \in C : w <= d[k].weight
        BY <1>2, <3>3
      <4>2. x = u /\ y = w
        BY <1>4, <2>2, <2>4, <3>3, <4>1
      <4> QED
        BY <2>2, <2>4, <3>3, <4>1, <4>2
    <3> QED
      BY <3>1, <3>2, <3>3
  <2> QED
    BY <2>1, <2>2, <2>3, <2>5 DEF Nearest
<1> QED
  BY <1>3, <1>4

\* What LinksShown says of the links of a GPU.
ShownOf(s, n) ==
  /\ LinkedCpus(s, n) # {}
  /\ \A m \in LinkedCpus(s, n) : s.nodes[m].seen
  /\ \A k, m \in DOMAIN s.nodes[n].links :
       ~s.nodes[k].seen /\ s.nodes[m].seen => m < k

\* The readable nodes that the first k of the links lead to.
First(s, A, k) == {m \in {A[j] : j \in 1 .. k} : s.nodes[m].seen}
Reached(s, d, A, k, u, w, t, e) ==
  /\ Nearest(s, d, First(s, A, k), u, w, t)
  /\ ~Goes(e) => \E j \in 1 .. k : ~s.nodes[A[j]].seen
ReachedBy(s, d, A, k, l) ==
  \E u, w, t, e :
    l = Links(u, w, t, e) /\ Reached(s, d, A, k, u, w, t, e)

\* A step reaches the next readable node; none that can be read comes behind one
\* that cannot.
LEMMA ReachMore ==
  ASSUME NEW s, WellFormed(s), NEW n \in GpuNodes(s), ShownOf(s, n),
         NEW d, d = s.nodes[n].links, NEW N \in Nat, NEW A,
         \A k \in 1 .. N : A[k] \in DOMAIN d,
         \A j, k \in 1 .. N : j <= k => A[j] <= A[k],
         NEW k \in 1 .. N, NEW a, ReachedBy(s, d, A, k - 1, a),
         NEW l, l = AddLink(s, d, a, A[k])
  PROVE  ReachedBy(s, d, A, k, l)
<1>1. PICK u, w, t, e : /\ a = Links(u, w, t, e)
                        /\ Reached(s, d, A, k - 1, u, w, t, e)
  BY Zenon DEF ReachedBy
<1>2. PICK m : m = A[k]
  OBVIOUS
<1>3. /\ DOMAIN d \subseteq DOMAIN s.nodes /\ DOMAIN s.nodes \subseteq Nat \ {0}
      /\ \A x \in DOMAIN d : d[x].weight \in Nat
  <2>1. n \in DOMAIN s.nodes
    BY ListedFacts
  <2>2. DOMAIN s.nodes = 1 .. Len(s.nodes) /\ Len(s.nodes) \in Nat
    BY Forms
  <2> QED
    BY <2>1, <2>2, Forms
<1>4. m \in DOMAIN d /\ m \in DOMAIN s.nodes
  BY <1>2, <1>3
<1>5. l = AddLink(s, d, Links(u, w, t, e), m)
  BY <1>1, <1>2
<1>51. Adds(s, d, m, u, w, t, e, l)
  BY <1>4, <1>5, LinkAdded
<1>6. {A[j] : j \in 1 .. k} = {A[j] : j \in 1 .. k - 1} \cup {m}
  BY <1>2
<1>7. CASE ~s.nodes[m].seen
  <2>1. PICK x : l = Links(u, w, t, x)
    BY <1>51, <1>7, Zenon DEF Adds
  <2>2. First(s, A, k) = First(s, A, k - 1)
    BY <1>6, <1>7 DEF First
  <2>3. \E j \in 1 .. k : ~s.nodes[A[j]].seen
    BY <1>2, <1>7
  <2>4. Reached(s, d, A, k, u, w, t, x)
    BY <1>1, <2>2, <2>3 DEF Reached
  <2> QED
    BY <2>1, <2>4 DEF ReachedBy
<1>8. CASE s.nodes[m].seen
  <2>1. Goes(e)
    <3>1. SUFFICES ASSUME ~Goes(e) PROVE FALSE
      OBVIOUS
    <3>2. PICK j \in 1 .. k - 1 : ~s.nodes[A[j]].seen
      BY <1>1, <3>1 DEF Reached
    <3>3. A[j] \in DOMAIN d /\ A[j] <= m /\ j \in 1 .. N
      BY <1>2, <3>2
    <3>4. m < A[j]
      BY <1>4, <1>8, <3>2, <3>3 DEF ShownOf
    <3>5. m \in Nat /\ A[j] \in Nat
      BY <1>3, <1>4, <3>3
    <3> QED
      BY <3>3, <3>4, <3>5
  <2>2. First(s, A, k) = First(s, A, k - 1) \cup {m}
    BY <1>6, <1>8 DEF First
  <2>3. \A x \in First(s, A, k - 1) \cup {m} : x # 0 /\ d[x].weight \in Nat
    <3>1. First(s, A, k - 1) \subseteq DOMAIN d
      BY DEF First
    <3> QED
      BY <1>3, <1>4, <3>1
  <2>4. Nearest(s, d, First(s, A, k - 1), u, w, t)
    BY <1>1 DEF Reached
  <2>5. PICK x, y, z : /\ l = Links(x, y, z, e)
                       /\ s.nodes[m].gpu # 0 => x = u /\ y = w /\ z = t \cup {m}
                       /\ s.nodes[m].gpu = 0 =>
                            /\ z = t
                            /\ IF u = 0 \/ d[m].weight < w THEN x = m /\ y = d[m].weight
                               ELSE x = u /\ y = w
    <3>1. CASE s.nodes[m].gpu # 0
      <4>1. l = Links(u, w, t \cup {m}, e)
        BY <1>51, <1>8, <2>1, <3>1, Zenon DEF Adds
      <4> QED
        BY <3>1, <4>1
    <3>2. CASE s.nodes[m].gpu = 0 /\ (u = 0 \/ d[m].weight < w)
      <4>1. l = Links(m, d[m].weight, t, e)
        BY <1>51, <1>8, <2>1, <3>2, Zenon DEF Adds
      <4> QED
        BY <3>2, <4>1
    <3>3. CASE s.nodes[m].gpu = 0 /\ ~(u = 0 \/ d[m].weight < w)
      <4>1. l = Links(u, w, t, e)
        BY <1>51, <1>8, <2>1, <3>3, Zenon DEF Adds
      <4> QED
        BY <3>3, <4>1
    <3> QED
      BY <3>1, <3>2, <3>3
  <2>6. Nearest(s, d, First(s, A, k - 1) \cup {m}, x, y, z)
    BY <2>3, <2>4, <2>5, NearestMore
  <2>7. Reached(s, d, A, k, x, y, z, e)
    BY <2>1, <2>2, <2>6 DEF Reached
  <2> QED
    BY <2>5, <2>7 DEF ReachedBy
<1> QED
  BY <1>7, <1>8

\* What KFDNode::Initialize finds: every GPU that can be read, and the CPU
\* with the least weight.
LEMMA LinksFound ==
  ASSUME NEW s, WellFormed(s), NEW n \in GpuNodes(s), ShownOf(s, n), NEW d,
         d = s.nodes[n].links, NEW l, l = LinksOf(s, n)
  PROVE  /\ l.direct = {m \in DOMAIN d : s.nodes[m].seen /\ s.nodes[m].gpu # 0}
         /\ l.numa \in LinkedCpus(s, n) /\ l.weight = d[l.numa].weight
         /\ \A m \in LinkedCpus(s, n) : l.weight <= d[m].weight
<1>1. n \in DOMAIN s.nodes
  BY ListedFacts
<1>2. /\ DOMAIN d \subseteq DOMAIN s.nodes /\ IsFiniteSet(DOMAIN d)
      /\ DOMAIN d \subseteq Nat
  <2>1. DOMAIN d \subseteq DOMAIN s.nodes
    BY <1>1, Forms
  <2> QED
    BY <2>1, ListedFacts
<1>3. PICK N \in Nat : N = Cardinality(DOMAIN d)
  BY <1>2, FS_CardinalityType
<1>4. PICK A : A = Ascending(DOMAIN d)
  OBVIOUS
<1>5. /\ \A k \in 1 .. N : A[k] \in DOMAIN d
      /\ \A j, k \in 1 .. N : j <= k => A[j] <= A[k]
      /\ \A m \in DOMAIN d : \E k \in 1 .. N : A[k] = m
  BY <1>2, <1>3, <1>4, AscendingFacts
<1>6. PICK L : L = Linked(s, d)
  OBVIOUS
<1>7. L[0] = NoLink /\ \A k \in 1 .. N : L[k] = AddLink(s, d, L[k - 1], A[k])
  BY <1>3, <1>4, <1>6, LinksGo
<1>8. PICK Good : Good = {k \in Nat : k <= N => ReachedBy(s, d, A, k, L[k])}
  OBVIOUS
<1>9. 0 \in Good
  <2>1. L[0] = Links(0, 0, {}, FALSE)
    BY <1>7 DEF NoLink, Links
  <2>2. First(s, A, 0) = {}
    BY DEF First
  <2>3. Nearest(s, d, {}, 0, 0, {})
    BY DEF Nearest
  <2>4. PICK e : e = FALSE
    OBVIOUS
  <2>5. L[0] = Links(0, 0, {}, e) /\ Goes(e)
    BY <2>1, <2>4 DEF Goes
  <2>6. Reached(s, d, A, 0, 0, 0, {}, e)
    BY <2>2, <2>3, <2>5 DEF Reached
  <2>7. ReachedBy(s, d, A, 0, L[0])
    BY <2>5, <2>6 DEF ReachedBy
  <2> QED
    BY <1>8, <2>7
<1>10. ASSUME NEW k \in Nat, k \in Good
       PROVE  k + 1 \in Good
  <2>1. SUFFICES ASSUME k + 1 <= N PROVE ReachedBy(s, d, A, k + 1, L[k + 1])
    BY <1>8
  <2>2. k + 1 \in 1 .. N /\ (k + 1) - 1 = k
    BY <2>1
  <2>3. ReachedBy(s, d, A, k, L[k])
    BY <1>8, <1>10, <2>1
  <2>4. PICK j : j = k + 1
    OBVIOUS
  <2>5. /\ j \in 1 .. N /\ ReachedBy(s, d, A, j - 1, L[j - 1])
        /\ L[j] = AddLink(s, d, L[j - 1], A[j])
    BY <1>7, <2>2, <2>3, <2>4
  <2>6. ReachedBy(s, d, A, j, L[j])
    BY <1>5, <2>5, ReachMore
  <2> QED
    BY <2>4, <2>6
<1>11. N \in Good
  BY <1>9, <1>10, SetInduction
<1>12. ReachedBy(s, d, A, N, l)
  BY <1>3, <1>6, <1>8, <1>11 DEF LinksOf
<1>13. PICK u, w, t, e : /\ l = Links(u, w, t, e)
                         /\ Nearest(s, d, First(s, A, N), u, w, t)
  BY <1>12, Zenon DEF ReachedBy, Reached
<1>14. First(s, A, N) = {m \in DOMAIN d : s.nodes[m].seen}
  BY <1>5 DEF First
<1>15. l.numa = u /\ l.weight = w /\ l.direct = t
  BY ONLY <1>13 DEF Links
<1>16. {m \in First(s, A, N) : s.nodes[m].gpu = 0} = LinkedCpus(s, n)
  BY <1>14 DEF LinkedCpus, ShownOf
<1>17. LinkedCpus(s, n) # {}
  BY DEF ShownOf
<1>18. /\ t = {m \in DOMAIN d : s.nodes[m].seen /\ s.nodes[m].gpu # 0}
       /\ u \in LinkedCpus(s, n) /\ w = d[u].weight
       /\ \A m \in LinkedCpus(s, n) : w <= d[m].weight
  BY <1>13, <1>14, <1>16, <1>17 DEF Nearest
<1> QED
  BY <1>15, <1>18

-----------------------------------------------------------------------------
(* The path over the CPUs, from the table of links.                        *)

\* What the table of links tells of the CPUs: the links that are there now,
\* and none that are not.
LinksKeep(s, ls) ==
  \A c, d \in CpuNodes(s) :
    <<c, d>> \in DOMAIN ls => d \in DOMAIN s.nodes[c].links
LinksNow(s, ls) ==
  \A c \in DOMAIN s.nodes : s.nodes[c].seen =>
    \A d \in DOMAIN s.nodes[c].links :
      <<c, d>> \in DOMAIN ls /\ ls[<<c, d>>] = s.nodes[c].links[d].weight

\* The weight kept of the nearest CPU is the least of the links to CPUs.
LEMMA LeastWeight ==
  ASSUME NEW s, WellFormed(s), NEW n \in GpuNodes(s), ShownOf(s, n),
         NEW T, T = {s.nodes[n].links[m].weight : m \in LinkedCpus(s, n)}
  PROVE  Min(T) = LinksOf(s, n).weight /\ Min(T) \in Nat
<1>1. PICK d, l : d = s.nodes[n].links /\ l = LinksOf(s, n)
  OBVIOUS
<1>2. /\ l.numa \in LinkedCpus(s, n) /\ l.weight = d[l.numa].weight
      /\ \A m \in LinkedCpus(s, n) : l.weight <= d[m].weight
  BY <1>1, LinksFound
<1>3. \A m \in LinkedCpus(s, n) : d[m].weight \in Nat
  <2>1. n \in DOMAIN s.nodes
    BY ListedFacts
  <2> QED
    BY <1>1, <2>1, Forms DEF LinkedCpus
<1>4. T \subseteq Nat /\ l.weight \in T /\ \A x \in T : l.weight <= x
  BY <1>1, <1>2, <1>3
<1>5. Min(T) \in T /\ \A x \in T : Min(T) <= x
  BY <1>4, MinFacts
<1>6. Min(T) \in Nat /\ l.weight \in Nat /\ Min(T) <= l.weight /\ l.weight <= Min(T)
  BY <1>4, <1>5
<1> QED
  BY ONLY <1>1, <1>6

\* The least weight of the links of n to CPUs, and the path between n and m.
Least(s, n) == Min({s.nodes[n].links[m].weight : m \in LinkedCpus(s, n)})
PathOf(s, n, m, x) ==
  /\ x >= Least(s, n) + Least(s, m)
  /\ x = Least(s, n) + Least(s, m) \/
     \E c \in LinkedCpus(s, n), d \in LinkedCpus(s, m) :
       /\ c # d /\ s.nodes[n].links[c].weight = Least(s, n)
       /\ s.nodes[m].links[d].weight = Least(s, m)
       /\ x = Least(s, n) + Least(s, m) +
                (IF d \in DOMAIN s.nodes[c].links
                 THEN s.nodes[c].links[d].weight ELSE 10)

\* The weights of the nearest CPUs, and of the link between those, are of a path
\* over the CPUs.
LEMMA PathOverCpus ==
  ASSUME NEW s, WellFormed(s), NEW n \in GpuNodes(s), NEW m \in GpuNodes(s),
         ShownOf(s, n), ShownOf(s, m), NEW ls, LinksKeep(s, ls), LinksNow(s, ls),
         NEW u, NEW v, Says(s, n, u), Says(s, m, v), NEW x,
         x = u.numa_weight + v.numa_weight
               + (IF u.numa = v.numa THEN 0
                  ELSE IF <<u.numa, v.numa>> \in DOMAIN ls
                       THEN ls[<<u.numa, v.numa>>] ELSE 10)
  PROVE  PathOf(s, n, m, x)
<1>1. PICK c, d, y, z : /\ c = u.numa /\ d = v.numa
                        /\ y = u.numa_weight /\ z = v.numa_weight
  OBVIOUS
<1>2. /\ c = LinksOf(s, n).numa /\ y = LinksOf(s, n).weight
      /\ d = LinksOf(s, m).numa /\ z = LinksOf(s, m).weight
  BY <1>1 DEF Says
<1>3. Least(s, n) = y /\ y \in Nat /\ Least(s, m) = z /\ z \in Nat
  BY <1>2, LeastWeight DEF Least
<1>4. /\ c \in LinkedCpus(s, n) /\ s.nodes[n].links[c].weight = y
      /\ d \in LinkedCpus(s, m) /\ s.nodes[m].links[d].weight = z
  BY <1>2, LinksFound
<1>5. /\ c \in CpuNodes(s) /\ s.nodes[c].seen /\ c \in DOMAIN s.nodes
      /\ d \in CpuNodes(s)
  <2>1. n \in DOMAIN s.nodes /\ m \in DOMAIN s.nodes
    BY ListedFacts
  <2>2. c \in DOMAIN s.nodes /\ d \in DOMAIN s.nodes
    BY <1>4, <2>1, Forms DEF LinkedCpus
  <2>3. s.nodes[c].seen
    BY <1>4 DEF ShownOf
  <2> QED
    BY <1>4, <2>2, <2>3 DEF LinkedCpus, CpuNodes
<1>6. PICK p : p = IF d \in DOMAIN s.nodes[c].links
                   THEN s.nodes[c].links[d].weight ELSE 10
  OBVIOUS
<1>7. p \in Nat
  BY <1>5, <1>6, Forms
<1>8. CASE c = d
  <2>1. x = y + z
    BY <1>1, <1>3, <1>8
  <2> QED
    BY <1>3, <2>1 DEF PathOf
<1>9. CASE c # d
  <2>1. <<c, d>> \in DOMAIN ls <=> d \in DOMAIN s.nodes[c].links
    BY <1>5 DEF LinksKeep, LinksNow
  <2>2. <<c, d>> \in DOMAIN ls => ls[<<c, d>>] = s.nodes[c].links[d].weight
    BY <1>5, <2>1 DEF LinksNow
  <2>3. x = y + z + p
    BY <1>1, <1>6, <1>9, <2>1, <2>2
  <2>4. x >= y + z
    BY <1>3, <1>7, <2>3
  <2> QED
    BY <1>3, <1>4, <1>6, <1>9, <2>3, <2>4 DEF PathOf
<1> QED
  BY <1>8, <1>9

\* A direct link is known.
LEMMA DirectKnown ==
  ASSUME NEW s, WellFormed(s), NEW n \in GpuNodes(s), NEW m \in GpuNodes(s),
         ShownOf(s, n), NEW u, Says(s, n, u)
  PROVE  /\ m \in DOMAIN u.direct <=> m \in DOMAIN s.nodes[n].links
         /\ m \in DOMAIN u.direct => u.direct[m] = s.nodes[n].links[m]
<1>1. PICK d, l : d = s.nodes[n].links /\ l = LinksOf(s, n)
  OBVIOUS
<1>2. l.direct = {k \in DOMAIN d : s.nodes[k].seen /\ s.nodes[k].gpu # 0}
  BY <1>1, LinksFound
<1>3. m \in DOMAIN s.nodes
  BY ListedFacts
<1>4. s.nodes[m].seen /\ s.nodes[m].gpu # 0
  BY <1>3 DEF GpuNodes, ReadKFDGpuId, KFDNodeSupported, Absent
<1>5. u.direct = [k \in l.direct |-> d[k]]
  BY <1>1 DEF Says
<1> QED
  BY <1>1, <1>2, <1>4, <1>5

-----------------------------------------------------------------------------
(* The maps, through a step.                                               *)

\* What the maps hold beyond the devices, of this session and earlier ones:
\* only GPUs that may be known, and the links between CPUs of this system.
NodesKnown(nodes) ==
  IsFiniteSet(DOMAIN nodes) /\ \A g \in DOMAIN nodes : nodes[g].cu_count \in Nat
MapsInv(K) ==
  /\ NodesKnown(kfdNodes) /\ DOMAIN kfdNodes \subseteq K[sys]
  /\ \A i \in DOMAIN devices : devices[i].gpu \in DOMAIN kfdNodes
  /\ LinksKeep(sys, links)
  /\ refCount > 0 => LinksNow(sys, links)

\* The nodes of earlier sessions stay behind those of this one.
LEMMA NodesAdded ==
  ASSUME NEW new, NEW old, NodesKnown(new), NodesKnown(old)
  PROVE  NodesKnown(Over(new, old))
<1>1. PICK o : o = Over(new, old)
  OBVIOUS
<1>2. /\ DOMAIN o = DOMAIN new \cup DOMAIN old
      /\ \A g \in DOMAIN o : o[g] = IF g \in DOMAIN new THEN new[g] ELSE old[g]
  BY <1>1 DEF Over
<1>3. IsFiniteSet(DOMAIN new \cup DOMAIN old)
  BY FS_Union DEF NodesKnown
<1>4. \A g \in DOMAIN o : o[g].cu_count \in Nat
  BY <1>2 DEF NodesKnown
<1> QED
  BY <1>1, <1>2, <1>3, <1>4 DEF NodesKnown

\* The links read now, over those of earlier sessions.
LEMMA LinksAdded ==
  ASSUME NEW s, NEW old, LinksKeep(s, old), NEW ls,
         \A c \in DOMAIN s.nodes :
           DOMAIN s.nodes[c].links \subseteq DOMAIN s.nodes,
         ls = Over(DiscoverIOLinks(s), old)
  PROVE  LinksKeep(s, ls) /\ LinksNow(s, ls)
<1>1. PICK new : new = DiscoverIOLinks(s)
  OBVIOUS
<1>2. PICK ends : ends = {e \in (DOMAIN s.nodes) \X (DOMAIN s.nodes) :
                           /\ s.nodes[e[1]].seen
                           /\ e[2] \in DOMAIN s.nodes[e[1]].links}
  OBVIOUS
<1>3. new = [e \in ends |-> s.nodes[e[1]].links[e[2]].weight]
  BY <1>1, <1>2 DEF DiscoverIOLinks
<1>4. ls = Over(new, old)
  BY <1>1
<1>5. DOMAIN ls = ends \cup DOMAIN old /\ \A e \in ends : ls[e] = new[e]
  BY <1>3, <1>4 DEF Over
<1>6. ASSUME NEW c, NEW d
      PROVE  <<c, d>> \in ends <=>
               /\ c \in DOMAIN s.nodes /\ d \in DOMAIN s.nodes
               /\ s.nodes[c].seen /\ d \in DOMAIN s.nodes[c].links
  BY <1>2
<1>7. ASSUME NEW c \in CpuNodes(s), NEW d \in CpuNodes(s), <<c, d>> \in DOMAIN ls
      PROVE  d \in DOMAIN s.nodes[c].links
  BY <1>5, <1>6, <1>7 DEF LinksKeep
<1>8. ASSUME NEW c \in DOMAIN s.nodes, s.nodes[c].seen,
             NEW d \in DOMAIN s.nodes[c].links
      PROVE  <<c, d>> \in DOMAIN ls /\ ls[<<c, d>>] = s.nodes[c].links[d].weight
  <2>1. PICK e : e = <<c, d>>
    OBVIOUS
  <2>2. e \in ends
    BY <1>6, <1>8, <2>1
  <2>3. ls[e] = s.nodes[e[1]].links[e[2]].weight /\ e \in DOMAIN ls
    BY <1>3, <1>5, <2>2
  <2> QED
    BY <2>1, <2>3
<1> QED
  BY <1>7, <1>8 DEF LinksKeep, LinksNow

\* What Initialize stores over the maps of earlier sessions.
LEMMA MapsStart ==
  ASSUME NEW K, ProcessesShown(K), MapsInv(K), NEW s \in Systems, s = sys,
         sys' = sys, NEW all, Initialize(all)
  PROVE  MapsInv(K)'
<1>1. PICK d \in DiscoverAmdgpuDevices(sys, all) :
        /\ devices' = Matched(sys, d, DiscoverKFDNodes(sys))
        /\ kfdNodes' = Over(Numbered(d, DiscoverKFDNodes(sys)), kfdNodes)
        /\ links' = Over(DiscoverIOLinks(sys), links)
  BY Zenon DEF Initialize
<1>2. WellFormed(s)
  BY SystemsAssumption DEF SystemsAssumption
<1>3. PICK kfd : kfd = DiscoverKFDNodes(s)
  OBVIOUS
<1>4. PICK D, nodes : D = devices' /\ nodes = kfdNodes'
  OBVIOUS
<1>5. PICK new : new = [g \in {D[j].gpu : j \in DOMAIN D} |->
                          LET m == Max({j \in DOMAIN D : D[j].gpu = g})
                          IN Marked(kfd[D[m].bdf], m)]
  OBVIOUS
<1>6. new = Numbered(d, kfd)
  BY <1>4, <1>5 DEF Numbered, Marked
<1>7. D = Matched(s, d, kfd) /\ nodes = Over(new, kfdNodes)
  BY <1>1, <1>3, <1>4, <1>6
<1>8. Shows(s, D)
  <2>1. Shows(s, devices')
    BY TopoStarts
  <2> QED
    BY <1>4, <2>1
<1>9. PICK N \in Nat : DOMAIN D = 1 .. N
  BY <1>1, <1>2, <1>3, <1>7, MatchedShows
<1>10. DOMAIN new = {D[j].gpu : j \in DOMAIN D}
  BY <1>5
<1>11. NodesKnown(new)
  <2>1. IsFiniteSet(DOMAIN D)
    BY <1>9, FS_Interval
  <2>2. IsFiniteSet(DOMAIN new)
    <3>1. PICK f : f = [j \in DOMAIN D |-> D[j].gpu]
      OBVIOUS
    <3>2. f \in Surjection(DOMAIN D, DOMAIN new)
      BY <1>10, <3>1 DEF Surjection
    <3> QED
      BY <2>1, <3>2, FS_Surjection
  <2>3. ASSUME NEW g \in DOMAIN new
        PROVE  new[g].cu_count \in Nat
    <3>1. PICK T : T = {j \in DOMAIN D : D[j].gpu = g}
      OBVIOUS
    <3>2. T \subseteq 1 .. N /\ T # {}
      BY <1>9, <1>10, <3>1
    <3>3. Max(T) \in DOMAIN D
      BY <1>9, <3>2, MaxFacts
    <3>4. PICK m \in DOMAIN D : m = Max(T)
      BY <3>3
    <3>5. PICK n \in GpuNodes(s) : GpuOf(s, D[m], n)
      BY <1>8 DEF Shows
    <3>6. kfd[D[m].bdf] = KFDNode(s, n)
      BY <1>2, <1>3, <3>5, NodeAt DEF GpuOf
    <3>7. new[g] = Marked(KFDNode(s, n), m)
      BY <1>5, <1>10, <3>1, <3>4, <3>6
    <3>8. PICK v : v = new[g]
      OBVIOUS
    <3>9. Says(s, n, v)
      BY <3>7, <3>8, NodeFields
    <3>10. s.nodes[n].cus \in Nat
      BY <1>2, Forms, ListedFacts
    <3> QED
      BY <3>8, <3>9, <3>10 DEF Says
  <2> QED
    BY <2>2, <2>3 DEF NodesKnown
<1>12. NodesKnown(nodes) /\ DOMAIN nodes = DOMAIN new \cup DOMAIN kfdNodes
  <2>1. PICK old : old = kfdNodes
    OBVIOUS
  <2>2. NodesKnown(old)
    BY <2>1 DEF MapsInv
  <2>3. NodesKnown(Over(new, old))
    BY <1>11, <2>2, NodesAdded
  <2> QED
    BY <1>7, <2>1, <2>3 DEF Over
<1>13. \A i \in DOMAIN D : D[i].gpu \in DOMAIN nodes
  BY <1>10, <1>12
<1>14. DOMAIN new \subseteq K[s]
  <2>1. SUFFICES ASSUME NEW i \in DOMAIN D PROVE D[i].gpu \in K[s]
    BY <1>10
  <2>2. PICK n \in GpuNodes(s) : GpuOf(s, D[i], n) /\ HasCard(s, n)
    BY <1>8 DEF Shows
  <2>3. s.nodes[n].gpu \in K[s]
    BY <2>2 DEF ProcessesShown
  <2> QED
    BY <2>2, <2>3 DEF GpuOf
<1>15. DOMAIN nodes \subseteq K[s]
  BY <1>12, <1>14 DEF MapsInv
<1>16. LinksKeep(s, links') /\ LinksNow(s, links')
  <2>1. PICK old, ls : old = links /\ ls = links'
    OBVIOUS
  <2>2. LinksKeep(s, old) /\ ls = Over(DiscoverIOLinks(s), old)
    BY <1>1, <2>1 DEF MapsInv
  <2>3. \A c \in DOMAIN s.nodes : DOMAIN s.nodes[c].links \subseteq DOMAIN s.nodes
    BY <1>2, Forms
  <2>4. LinksKeep(s, ls) /\ LinksNow(s, ls)
    BY <2>2, <2>3, LinksAdded
  <2> QED
    BY <2>1, <2>4
<1> QED
  BY <1>4, <1>12, <1>13, <1>15, <1>16 DEF MapsInv

\* Steps that leave the maps alone.
LEMMA MapsSame ==
  ASSUME NEW K, MapsInv(K), UNCHANGED <<sys, maps>>,
         refCount' > 0 => refCount > 0,
         \A i \in DOMAIN devices' :
           i \in DOMAIN devices /\ devices'[i].gpu = devices[i].gpu
  PROVE  MapsInv(K)'
BY DEF MapsInv, maps

\* Repartitioning forgets no GPU that was known, and no link between CPUs.
LEMMA MapsRepartition ==
  ASSUME LinksShown, NEW K, ProcessesShown(K), FdInv, TopoInv, MapsInv(K),
         NEW s \in Systems, Repartition(s)
  PROVE  MapsInv(K)'
<1>1. /\ devices = <<>> /\ devices' = <<>> /\ refCount' = 0
      /\ UNCHANGED maps /\ sys' = s /\ <<sys, s>> \in Repartitions
  BY DEF Repartition, FdInv, HandleInv
<1>2. PICK r \in Systems : r = sys
  BY DEF TopoInv
<1>3. K[r] \subseteq K[s]
  BY <1>1, <1>2 DEF ProcessesShown
<1>4. /\ CpuNodes(s) \subseteq CpuNodes(r)
      /\ \A c \in CpuNodes(s) : LinkedCpus(r, c) \subseteq LinkedCpus(s, c)
  BY <1>1, <1>2 DEF LinksShown
<1>5. ASSUME NEW c \in CpuNodes(s), NEW d \in CpuNodes(s), <<c, d>> \in DOMAIN links
      PROVE  d \in DOMAIN s.nodes[c].links
  <2>1. d \in DOMAIN r.nodes[c].links
    BY <1>2, <1>4, <1>5 DEF MapsInv, LinksKeep
  <2>2. d \in LinkedCpus(r, c)
    BY <1>4, <2>1 DEF LinkedCpus, CpuNodes
  <2> QED
    BY <1>4, <2>2 DEF LinkedCpus
<1>6. LinksKeep(s, links)
  BY <1>5 DEF LinksKeep
<1> QED
  BY <1>1, <1>2, <1>3, <1>6 DEF MapsInv, maps

\* Every step keeps what is said of the maps.
LEMMA MapsStep ==
  ASSUME LinksShown, NEW K, ProcessesShown(K), FdInv, TopoInv, MapsInv(K), [Next]_vars
  PROVE  MapsInv(K)'
<1>0. refCount \in Nat
  BY DEF FdInv, TypeInv
<1>1. CASE \E s \in Systems : Repartition(s)
  BY <1>1, MapsRepartition
<1>2. CASE UNCHANGED <<sys, refCount, devices, maps>>
  BY <1>2, MapsSame
<1>3. ASSUME NEW t \in Threads, NEW all \in BOOLEAN, rsmi_init(t, all)
      PROVE  MapsInv(K)'
  <2>1. sys' = sys
    BY <1>3 DEF rsmi_init
  <2>2. CASE UNCHANGED <<devices, maps>> /\ refCount # 0
    BY <1>0, <2>1, <2>2, MapsSame
  <2>3. CASE refCount = 0 /\ Initialize(all)
    <3>1. PICK s \in Systems : s = sys
      BY DEF TopoInv
    <3> QED
      BY <2>1, <2>3, <3>1, MapsStart
  <2>4. CASE refCount = 0 /\ InitializeThrows
    <3>1. devices' = <<>> /\ refCount' = 0 /\ UNCHANGED maps
      BY <2>4 DEF InitializeThrows, Cleanup
    <3> QED
      BY <2>1, <3>1, MapsSame
  <2>5. MaxRef # 0
    BY SessionAssumption DEF SessionAssumption
  <2> QED
    BY <1>3, <2>2, <2>3, <2>4, <2>5 DEF rsmi_init
<1>4. ASSUME NEW t \in Threads, rsmi_shut_down(t)
      PROVE  MapsInv(K)'
  <2>1. UNCHANGED <<sys, maps>>
    BY <1>4 DEF rsmi_shut_down
  <2>2. CASE refCount = 1
    <3>1. devices' = <<>> /\ refCount' = 0
      BY <1>4, <2>2 DEF rsmi_shut_down, Cleanup
    <3> QED
      BY <2>1, <3>1, MapsSame
  <2>3. CASE refCount # 1
    <3>1. devices' = devices /\ (refCount' = refCount \/ refCount # 0)
      BY <1>4, <2>3 DEF rsmi_shut_down
    <3>2. refCount' > 0 => refCount > 0
      BY <1>0, <3>1
    <3> QED
      BY <2>1, <3>1, <3>2, MapsSame
  <2> QED
    BY <2>2, <2>3
<1>5. ASSUME NEW t \in Threads, NEW i \in DOMAIN devices,
             rsmi_event_notification_init(t, i) \/ rsmi_event_notification_stop(t, i)
      PROVE  MapsInv(K)'
  <2>1. UNCHANGED <<sys, refCount, maps>>
    BY <1>5 DEF rsmi_event_notification_init, rsmi_event_notification_stop
  <2>2. /\ DOMAIN devices' = DOMAIN devices
        /\ \A j \in DOMAIN devices : devices'[j].gpu = devices[j].gpu
    BY <1>5, SameGpus
  <2> QED
    BY <2>1, <2>2, MapsSame
<1> QED
  BY Zenon, <1>1, <1>2, <1>3, <1>4, <1>5, TopoFrame DEF Next, Notify

\* At the start they are empty.
LEMMA MapsBegin == ASSUME NEW K PROVE Init => MapsInv(K)
<1>1. ASSUME Init
      PROVE  kfdNodes = <<>> /\ links = <<>> /\ devices = <<>> /\ refCount = 0
  BY <1>1 DEF Init
<1>2. DOMAIN <<>> = {} /\ IsFiniteSet({})
  BY FS_EmptySet
<1> QED
  BY <1>1, <1>2 DEF MapsInv, NodesKnown, LinksKeep

-----------------------------------------------------------------------------
(* The sums over the GPUs of a process.                                    *)

\* Sums over a set of GPUs.
Part(h, T) == Tally([x \in T |-> h[x]])
Positive(n) == IF n > 0 THEN n ELSE 0

LEMMA PartPair ==
  ASSUME NEW h, NEW T, NEW x, NEW k
  PROVE  <<x, k>> \in Part(h, T) <=> x \in T /\ k \in 1 .. h[x]
<1>1. PICK f : f = [y \in T |-> h[y]]
  OBVIOUS
<1>2. <<x, k>> \in Tally(f) <=> x \in T /\ k \in 1 .. f[x]
  BY <1>1, TallyPair
<1> QED
  BY <1>1, <1>2 DEF Part

\* Elements of such a sum, from those of Tally.
LEMMA PartMember ==
  ASSUME NEW h, NEW T, NEW p
  PROVE  p \in Part(h, T) <=> \E x \in T : \E k \in 1 .. h[x] : p = <<x, k>>
<1>1. PICK f : f = [y \in T |-> h[y]]
  OBVIOUS
<1>2. p \in Tally(f) <=> \E x \in T : \E k \in 1 .. f[x] : p = <<x, k>>
  BY <1>1, TallyMember
<1> QED
  BY <1>1, <1>2 DEF Part

\* Sums over finitely many GPUs are finite,
LEMMA PartFinite ==
  ASSUME NEW h, NEW T, IsFiniteSet(T), \A x \in T : h[x] \in Int
  PROVE  IsFiniteSet(Part(h, T))
<1>1. PICK f : f = [x \in T |-> {x} \X (1 .. h[x])]
  OBVIOUS
<1>2. PICK C : C = {f[x] : x \in T}
  OBVIOUS
<1>3. f \in Surjection(T, C)
  BY <1>1, <1>2 DEF Surjection
<1>4. IsFiniteSet(C)
  BY <1>3, FS_Surjection
<1>5. ASSUME NEW x \in T
      PROVE  IsFiniteSet(f[x])
  <2>1. IsFiniteSet(1 .. h[x])
    BY FS_Interval
  <2>2. IsFiniteSet({x})
    BY FS_Singleton
  <2>3. IsFiniteSet({x} \X (1 .. h[x]))
    BY <2>1, <2>2, FS_Product
  <2> QED
    BY <1>1, <2>3
<1>6. IsFiniteSet(UNION C)
  BY <1>2, <1>4, <1>5, FS_UNION
<1>7. Part(h, T) \subseteq UNION C
  <2>1. ASSUME NEW p \in Part(h, T)
        PROVE  p \in UNION C
    <3>1. PICK x \in T : \E k \in 1 .. h[x] : p = <<x, k>>
      BY PartMember
    <3>2. PICK k \in 1 .. h[x] : p = <<x, k>>
      BY <3>1
    <3>3. p \in f[x] /\ f[x] \in C
      BY <1>1, <1>2, <3>1, <3>2
    <3> QED
      BY <3>3
  <2> QED
    BY <2>1
<1> QED
  BY <1>6, <1>7, FS_Subset

\* grow with a GPU by its number,
LEMMA PartMore ==
  ASSUME NEW h, NEW T, NEW x, x \notin T, h[x] \in Int, IsFiniteSet(Part(h, T))
  PROVE  Cardinality(Part(h, T \cup {x})) = Cardinality(Part(h, T)) + Positive(h[x])
<1>1. PICK D : D = {x} \X (1 .. h[x])
  OBVIOUS
<1>2. Part(h, T \cup {x}) = Part(h, T) \cup D
  <2>1. ASSUME NEW p
        PROVE  p \in Part(h, T \cup {x}) <=> p \in Part(h, T) \cup D
    <3>1. p \in Part(h, T \cup {x}) <=>
            \E y \in T \cup {x} : \E k \in 1 .. h[y] : p = <<y, k>>
      BY PartMember
    <3>2. p \in Part(h, T) <=> \E y \in T : \E k \in 1 .. h[y] : p = <<y, k>>
      BY PartMember
    <3>3. p \in D <=> \E k \in 1 .. h[x] : p = <<x, k>>
      BY <1>1
    <3> QED
      BY <3>1, <3>2, <3>3
  <2> QED
    BY <2>1
<1>3. Part(h, T) \cap D = {}
  <2>1. ASSUME NEW p \in D
        PROVE  p \notin Part(h, T)
    <3>1. PICK k : p = <<x, k>>
      BY <1>1
    <3> QED
      BY <3>1, PartPair
  <2> QED
    BY <2>1
<1>4. IsFiniteSet(D) /\ Cardinality(D) = Positive(h[x])
  <2>1. PICK n \in Int : n = h[x]
    OBVIOUS
  <2>2. /\ IsFiniteSet(1 .. n)
        /\ Cardinality(1 .. n) = IF 1 > n THEN 0 ELSE n - 1 + 1
    BY FS_Interval
  <2>3. IsFiniteSet({x}) /\ Cardinality({x}) = 1
    BY FS_Singleton
  <2>4. /\ IsFiniteSet({x} \X (1 .. n))
        /\ Cardinality({x} \X (1 .. n)) = Cardinality({x}) * Cardinality(1 .. n)
    BY <2>2, <2>3, FS_Product
  <2>5. Cardinality(1 .. n) = Positive(n)
    BY <2>2 DEF Positive
  <2>6. Cardinality(1 .. n) \in Nat
    BY <2>2, FS_CardinalityType
  <2> QED
    BY <1>1, <2>1, <2>3, <2>4, <2>5, <2>6
<1>5. /\ Cardinality(Part(h, T) \cup D) =
           Cardinality(Part(h, T)) + Cardinality(D) - Cardinality(Part(h, T) \cap D)
      /\ Cardinality(Part(h, T)) \in Nat /\ Cardinality(D) \in Nat
  BY <1>4, FS_Union, FS_CardinalityType
<1>6. Cardinality(Part(h, T) \cap D) = 0
  BY <1>3, FS_EmptySet
<1>7. PICK a, b, c, d : /\ a = Cardinality(Part(h, T)) /\ b = Cardinality(D)
                        /\ c = Cardinality(Part(h, T) \cup D)
                        /\ d = Cardinality(Part(h, T) \cap D)
  OBVIOUS
<1>8. c = a + b - d /\ a \in Nat /\ b \in Nat /\ d = 0
  BY ONLY <1>5, <1>6, <1>7
<1>9. c = a + b
  BY ONLY <1>8
<1>10. c = Cardinality(Part(h, T \cup {x})) /\ b = Positive(h[x])
  BY ONLY <1>2, <1>4, <1>7
<1> QED
  BY ONLY <1>7, <1>9, <1>10

\* and are less for fewer of them.
LEMMA PartLess ==
  ASSUME NEW h, NEW T, NEW U, U \subseteq T, IsFiniteSet(Part(h, T))
  PROVE  /\ IsFiniteSet(Part(h, U)) /\ Cardinality(Part(h, U)) \in Nat
         /\ Cardinality(Part(h, U)) <= Cardinality(Part(h, T))
<1>1. Part(h, U) \subseteq Part(h, T)
  <2>1. ASSUME NEW p \in Part(h, U)
        PROVE  p \in Part(h, T)
    <3>1. PICK x \in U : \E k \in 1 .. h[x] : p = <<x, k>>
      BY PartMember
    <3>2. PICK k \in 1 .. h[x] : p = <<x, k>>
      BY <3>1
    <3> QED
      BY <3>1, <3>2, PartPair
  <2> QED
    BY <2>1
<1> QED
  BY <1>1, FS_Subset, FS_CardinalityType

\* The sums for a process, of a record of five fields.
Process(v, s, o, u, e) ==
  [vram |-> v, sdma |-> s, occ |-> o, units |-> u, err |-> e]

\* What one GPU, whose occupancy is there, makes of them.
Counts(f, c, width, v, s, o, u, e, b) ==
  \/ \E x : ~Goes(x) /\ b = Process(v, s, o, u, x)
  \/ /\ Goes(e) /\ \A k \in DOMAIN f : CheckValidProcessInfoData(f[k])
     /\ \E x : b = Process(Plus(v, f.vram), Plus(s, f.sdma),
                        (o + f.occ) % width, u + c, x)

\* A GPU with a broken file ends the sums, any other adds its numbers.
LEMMA GpuAdded ==
  ASSUME NEW proc, NEW nodes, NEW width, NEW g, NEW f, f = proc[g], f.occ # Absent,
         NEW c, c = nodes[g].cu_count, NEW v, NEW s, NEW o, NEW u, NEW e, NEW b,
         b = AddGpu(proc, nodes, width, Process(v, s, o, u, e), g)
  PROVE  Counts(f, c, width, v, s, o, u, e, b)
<1>1. PICK a : a = Process(v, s, o, u, e)
  OBVIOUS
<1>2. PICK x, y : x = TRUE /\ y = FALSE
  OBVIOUS
<1>3. /\ a.vram = v /\ a.sdma = s /\ a.occ = o /\ a.units = u /\ a.err = e
      /\ [a EXCEPT !.err = x] = Process(v, s, o, u, x)
  BY ONLY <1>1 DEF Process
<1>4. ~Goes(x) /\ Goes(y) /\ (e <=> ~Goes(e))
  BY <1>2 DEF Goes
<1>5. b = IF e \/ \E k \in DOMAIN f : ~CheckValidProcessInfoData(f[k])
          THEN [a EXCEPT !.err = TRUE]
          ELSE [vram |-> Plus(v, f.vram), sdma |-> Plus(s, f.sdma),
                occ |-> IF f.occ = Absent THEN width - 1 ELSE (o + f.occ) % width,
                units |-> IF f.occ = Absent THEN 0 ELSE u + c, err |-> FALSE]
  BY <1>1, <1>3, Zenon DEF AddGpu
<1>6. CASE e \/ \E k \in DOMAIN f : ~CheckValidProcessInfoData(f[k])
  BY <1>2, <1>3, <1>4, <1>5, <1>6, Zenon DEF Counts
<1>7. CASE ~(e \/ \E k \in DOMAIN f : ~CheckValidProcessInfoData(f[k]))
  <2>1. b = [vram |-> Plus(v, f.vram), sdma |-> Plus(s, f.sdma),
             occ |-> (o + f.occ) % width, units |-> u + c, err |-> FALSE]
    BY <1>5, <1>7, Zenon
  <2>2. Goes(e) /\ \A k \in DOMAIN f : CheckValidProcessInfoData(f[k])
    BY <1>4, <1>7, Zenon
  <2>3. b = Process(Plus(v, f.vram), Plus(s, f.sdma), (o + f.occ) % width, u + c, y)
    BY <1>2, <2>1, Zenon DEF Process
  <2> QED
    BY <2>2, <2>3, Zenon DEF Counts
<1> QED
  BY <1>6, <1>7

\* The sums over the GPUs of T, while no file was broken.
Summed(V, S, O, U, T, a) ==
  \E v, s, o, u, e :
    /\ a = Process(v, s, o, u, e)
    /\ Goes(e) => /\ v = Cardinality(Part(V, T)) /\ s = Cardinality(Part(S, T))
                  /\ o = Cardinality(Part(O, T)) /\ u = Cardinality(Part(U, T))

\* All numbers of the files of the GPUs of D, and of their units.
Sized(h, D) ==
  /\ IsFiniteSet(D)
  /\ \A x \in D : h[x] \in Int

\* One GPU more, in numbers.
LEMMA SizeMore ==
  ASSUME NEW h, NEW D, Sized(h, D), NEW T \in SUBSET D, NEW x \in D, x \notin T
  PROVE  /\ Cardinality(Part(h, T)) \in Nat /\ Cardinality(Part(h, T \cup {x})) \in Nat
         /\ Cardinality(Part(h, T \cup {x})) =
              Cardinality(Part(h, T)) + Positive(h[x])
<1>1. IsFiniteSet(T) /\ IsFiniteSet(T \cup {x})
  BY FS_Subset DEF Sized
<1>2. IsFiniteSet(Part(h, T)) /\ IsFiniteSet(Part(h, T \cup {x}))
  BY <1>1, PartFinite DEF Sized
<1> QED
  BY <1>2, PartMore, FS_CardinalityType DEF Sized

\* A file that is not there adds nothing.
LEMMA PlusIs ==
  ASSUME NEW n, n \in Numeral, n # Broken, NEW v \in Nat
  PROVE  /\ Plus(v, n) = v + Positive(n) /\ Positive(n) \in Nat
         /\ n # Absent => n = Positive(n)
<1>1. n \in Nat \/ n = Absent
  BY DEF Numeral
<1>2. CASE n \in Nat
  <2>1. n # Absent
    BY <1>2 DEF Absent
  <2>2. Positive(n) = n
    BY <1>2 DEF Positive
  <2>3. Plus(v, n) = v + n
    BY <2>1 DEF Plus
  <2> QED
    BY <1>2, <2>1, <2>2, <2>3
<1>3. CASE n = Absent
  <2>1. Positive(n) = 0
    BY <1>3 DEF Positive, Absent
  <2>2. Plus(v, n) = v
    BY <1>3 DEF Plus
  <2> QED
    BY <1>3, <2>1, <2>2
<1> QED
  BY ONLY <1>1, <1>2, <1>3

\* One GPU more, in all four sums: the occupancy does not wrap.
LEMMA SumMore ==
  ASSUME NEW proc, NEW nodes, NEW width \in Nat, NEW D, NEW V, NEW S, NEW O, NEW U,
         Sized(V, D), Sized(S, D), Sized(O, D), Sized(U, D),
         \A g \in D : /\ proc[g] \in [vram : Numeral, sdma : Numeral, occ : Numeral]
                      /\ proc[g].occ # Absent
                      /\ V[g] = proc[g].vram /\ S[g] = proc[g].sdma
                      /\ O[g] = proc[g].occ /\ U[g] = nodes[g].cu_count
                      /\ U[g] \in Nat,
         Cardinality(Part(O, D)) < width,
         NEW T \in SUBSET D, NEW g \in D, g \notin T,
         NEW a, Summed(V, S, O, U, T, a), NEW b, b = AddGpu(proc, nodes, width, a, g)
  PROVE  Summed(V, S, O, U, T \cup {g}, b)
<1>1. PICK v, s, o, u, e :
        /\ a = Process(v, s, o, u, e)
        /\ Goes(e) => /\ v = Cardinality(Part(V, T)) /\ s = Cardinality(Part(S, T))
                      /\ o = Cardinality(Part(O, T)) /\ u = Cardinality(Part(U, T))
  BY Zenon DEF Summed
<1>2. PICK f, c : f = proc[g] /\ c = nodes[g].cu_count
  OBVIOUS
<1>3. b = AddGpu(proc, nodes, width, Process(v, s, o, u, e), g)
  BY <1>1
<1>4. f.occ # Absent
  BY <1>2
<1>5. Counts(f, c, width, v, s, o, u, e, b)
  BY <1>2, <1>3, <1>4, GpuAdded
<1>6. ASSUME NEW x, ~Goes(x), b = Process(v, s, o, u, x)
      PROVE  Summed(V, S, O, U, T \cup {g}, b)
  BY <1>6 DEF Summed
<1>7. ASSUME NEW x, Goes(e), \A k \in DOMAIN f : CheckValidProcessInfoData(f[k]),
             b = Process(Plus(v, f.vram), Plus(s, f.sdma), (o + f.occ) % width,
                         u + c, x)
      PROVE  Summed(V, S, O, U, T \cup {g}, b)
  <2>1. PICK y, z, w, q : /\ y = f.vram /\ z = f.sdma /\ w = f.occ /\ q = c
    OBVIOUS
  <2>2. f \in [vram : Numeral, sdma : Numeral, occ : Numeral]
    BY <1>2
  <2>3. /\ y \in Numeral /\ z \in Numeral /\ w \in Numeral
        /\ y # Broken /\ z # Broken /\ w # Broken
    BY <1>7, <2>1, <2>2 DEF CheckValidProcessInfoData
  <2>4. /\ v = Cardinality(Part(V, T)) /\ s = Cardinality(Part(S, T))
        /\ o = Cardinality(Part(O, T)) /\ u = Cardinality(Part(U, T))
    BY <1>1, <1>7
  <2>5. V[g] = y /\ S[g] = z /\ O[g] = w /\ U[g] = q /\ q \in Nat /\ w # Absent
    BY <1>2, <2>1
  <2>6. /\ v \in Nat /\ Cardinality(Part(V, T \cup {g})) = v + Positive(y)
        /\ s \in Nat /\ Cardinality(Part(S, T \cup {g})) = s + Positive(z)
        /\ o \in Nat /\ Cardinality(Part(O, T \cup {g})) = o + Positive(w)
        /\ u \in Nat /\ Cardinality(Part(U, T \cup {g})) = u + Positive(q)
    <3>1. v \in Nat /\ Cardinality(Part(V, T \cup {g})) = v + Positive(y)
      BY ONLY g \notin T, T \in SUBSET D, g \in D, Sized(V, D), <2>4, <2>5, SizeMore
    <3>2. s \in Nat /\ Cardinality(Part(S, T \cup {g})) = s + Positive(z)
      BY ONLY g \notin T, T \in SUBSET D, g \in D, Sized(S, D), <2>4, <2>5, SizeMore
    <3>3. o \in Nat /\ Cardinality(Part(O, T \cup {g})) = o + Positive(w)
      BY ONLY g \notin T, T \in SUBSET D, g \in D, Sized(O, D), <2>4, <2>5, SizeMore
    <3>4. u \in Nat /\ Cardinality(Part(U, T \cup {g})) = u + Positive(q)
      BY ONLY g \notin T, T \in SUBSET D, g \in D, Sized(U, D), <2>4, <2>5, SizeMore
    <3> QED
      BY <3>1, <3>2, <3>3, <3>4
  <2>7. Plus(v, y) = v + Positive(y) /\ Plus(s, z) = s + Positive(z)
    BY <2>3, <2>6, PlusIs
  <2>8. w = Positive(w) /\ w \in Nat
    BY <2>3, <2>5, <2>6, PlusIs
  <2>9. q = Positive(q)
    BY <2>5 DEF Positive
  <2>10. Cardinality(Part(O, T \cup {g})) < width
    <3>1. IsFiniteSet(Part(O, D))
      BY PartFinite DEF Sized
    <3>2. PICK X : X = T \cup {g}
      OBVIOUS
    <3>3. X \subseteq D
      BY <3>2
    <3>4. /\ Cardinality(Part(O, X)) \in Nat
          /\ Cardinality(Part(O, X)) <= Cardinality(Part(O, D))
          /\ Cardinality(Part(O, D)) \in Nat
      BY <3>1, <3>3, PartLess, FS_CardinalityType
    <3>5. Cardinality(Part(O, X)) < width
      BY <3>4
    <3> QED
      BY <3>2, <3>5
  <2>11. PICK r : r = o + w
    OBVIOUS
  <2>12. r \in Nat /\ r = Cardinality(Part(O, T \cup {g})) /\ r < width
    BY <2>6, <2>8, <2>10, <2>11
  <2>13. r % width = r
    BY <2>12
  <2>14. b = Process(v + Positive(y), s + Positive(z), r, u + q, x)
    BY <1>7, <2>1, <2>7, <2>11, <2>13
  <2>15. u + q = Cardinality(Part(U, T \cup {g}))
    BY <2>6, <2>9
  <2>16. PICK A, B, C : A = v + Positive(y) /\ B = s + Positive(z) /\ C = u + q
    OBVIOUS
  <2>17. /\ b = Process(A, B, r, C, x)
         /\ A = Cardinality(Part(V, T \cup {g}))
         /\ B = Cardinality(Part(S, T \cup {g}))
         /\ r = Cardinality(Part(O, T \cup {g}))
         /\ C = Cardinality(Part(U, T \cup {g}))
    BY ONLY <2>6, <2>12, <2>14, <2>15, <2>16
  <2> QED
    BY ONLY <2>17 DEF Summed
<1> QED
  BY <1>5, <1>6, <1>7, Zenon DEF Counts

\* The GPUs, in some order: each once.
OrderOf(gpus, N, D) ==
  /\ \A j \in 1 .. N : gpus[j] \in D
  /\ \A i, j \in 1 .. N : i # j => gpus[i] # gpus[j]
  /\ \A g \in D : \E j \in 1 .. N : gpus[j] = g

\* The order of the hash set is such an order.
LEMMA InSomeOrder ==
  ASSUME NEW D, IsFiniteSet(D), NEW gpus \in SetToSeqs(D)
  PROVE  Len(gpus) \in Nat /\ OrderOf(gpus, Len(gpus), D)
<1>1. PICK N \in Nat : N = Cardinality(D)
  BY FS_CardinalityType
<1>2. /\ gpus \in [1 .. N -> D]
      /\ \A i, j \in 1 .. N : i # j => gpus[i] # gpus[j]
  BY <1>1, Zenon DEF SetToSeqs
<1>3. Len(gpus) = N
  <2>1. gpus \in Seq(D)
    BY <1>2, SeqDef
  <2>2. Len(gpus) \in Nat /\ DOMAIN gpus = 1 .. Len(gpus)
    BY <2>1, LenProperties
  <2>3. 1 .. Len(gpus) = 1 .. N
    BY <1>2, <2>2
  <2> QED
    BY <1>1, <2>2, <2>3
<1>4. gpus \in Injection(1 .. N, D)
  BY <1>2 DEF Injection, IsInjective
<1>5. Cardinality(1 .. N) = N
  <2>1. Cardinality(1 .. N) = IF 1 > N THEN 0 ELSE N - 1 + 1
    BY FS_Interval
  <2> QED
    BY <1>1, <2>1
<1>6. gpus \in Surjection(1 .. N, D)
  BY <1>1, <1>4, <1>5, FS_Injection
<1>7. \A g \in D : \E j \in 1 .. N : gpus[j] = g
  BY <1>6 DEF Surjection
<1> QED
  BY <1>2, <1>3, <1>7 DEF OrderOf

\* Numbers of all files, and of the units of all GPUs.
FileNumbers(f, nodes, D) ==
  \A g \in D : /\ f[g] \in [vram : Numeral, sdma : Numeral, occ : Numeral]
               /\ f[g].occ # Absent /\ nodes[g].cu_count \in Nat

\* What ProcessSums says of the sums p.
SumsAre(f, nodes, D, p) ==
  LET Sum(numbers) == Cardinality(Tally(numbers))
      units == Sum([g \in D |-> nodes[g].cu_count])
      occ   == Sum([g \in D |-> f[g].occ])
  IN Goes(p.err) =>
       /\ p.vram = Sum([g \in D |-> f[g].vram])
       /\ p.sdma = Sum([g \in D |-> f[g].sdma])
       /\ p.occ = IF units = 0 THEN occ ELSE (100 * occ) \div units

\* What GetProcessInfoForPID returns, in whatever order the GPUs come.
LEMMA SumsTrue ==
  ASSUME NEW f, NEW D, IsFiniteSet(D), NEW nodes, NEW width \in Nat,
         FileNumbers(f, nodes, D),
         100 * Cardinality(Tally([g \in D |-> f[g].occ])) < width,
         NEW gpus, NEW N \in Nat, Len(gpus) = N, OrderOf(gpus, N, D),
         NEW p, p = GetProcessInfoForPID(f, nodes, width, gpus)
  PROVE  SumsAre(f, nodes, D, p)
<1>1. PICK V, S, O, U : /\ V = [g \in D |-> f[g].vram] /\ S = [g \in D |-> f[g].sdma]
                        /\ O = [g \in D |-> f[g].occ]
                        /\ U = [g \in D |-> nodes[g].cu_count]
  OBVIOUS
<1>2. /\ V = [g \in D |-> V[g]] /\ S = [g \in D |-> S[g]]
      /\ O = [g \in D |-> O[g]] /\ U = [g \in D |-> U[g]]
  BY <1>1
<1>3. /\ Tally(V) = Part(V, D) /\ Tally(S) = Part(S, D)
      /\ Tally(O) = Part(O, D) /\ Tally(U) = Part(U, D)
  BY ONLY <1>2 DEF Part
<1>4. \A g \in D : /\ V[g] = f[g].vram /\ S[g] = f[g].sdma
                   /\ O[g] = f[g].occ /\ U[g] = nodes[g].cu_count
  BY <1>1
<1>5. Sized(V, D) /\ Sized(S, D) /\ Sized(O, D) /\ Sized(U, D)
  <2>1. \A g \in D : /\ V[g] \in Numeral /\ S[g] \in Numeral
                     /\ O[g] \in Numeral /\ U[g] \in Nat
    BY <1>4 DEF FileNumbers
  <2>2. \A n : n \in Numeral => n \in Int
    BY DEF Numeral, Absent, Broken
  <2>3. \A g \in D : V[g] \in Int /\ S[g] \in Int /\ O[g] \in Int /\ U[g] \in Int
    BY <2>1, <2>2
  <2> QED
    BY <2>3 DEF Sized
<1>6. PICK k \in Nat : k = Cardinality(Part(O, D))
  <2>1. IsFiniteSet(Part(O, D))
    BY <1>5, PartFinite DEF Sized
  <2> QED
    BY <2>1, FS_CardinalityType
<1>7. 100 * k < width /\ k < width
  <2>1. 100 * k < width
    BY <1>1, <1>3, <1>6
  <2> QED
    BY <2>1
<1>8. PICK A : A = SumsOf(f, nodes, width, gpus)
  OBVIOUS
<1>9. /\ A[0] = Nothing
      /\ \A j \in 1 .. N : A[j] = AddGpu(f, nodes, width, A[j - 1], gpus[j])
  BY ONLY N \in Nat, Len(gpus) = N, <1>8, SumsGo
<1> DEFINE T(n) == {gpus[j] : j \in 1 .. n}
<1>10. PICK Good : Good = {n \in Nat : n <= N => Summed(V, S, O, U, T(n), A[n])}
  OBVIOUS
<1>11. 0 \in Good
  <2>1. T(0) = {}
    OBVIOUS
  <2>2. /\ Part(V, {}) = {} /\ Part(S, {}) = {} /\ Part(O, {}) = {} /\ Part(U, {}) = {}
    BY PartMember
  <2>3. Cardinality({}) = 0
    BY FS_EmptySet
  <2>4. \E e : A[0] = Process(0, 0, 0, 0, e)
    BY <1>9 DEF Nothing, Process
  <2>5. Summed(V, S, O, U, {}, A[0])
    BY <2>2, <2>3, <2>4 DEF Summed
  <2> QED
    BY <1>10, <2>1, <2>5
<1>12. ASSUME NEW n \in Nat, n \in Good
       PROVE  n + 1 \in Good
  <2>1. SUFFICES ASSUME n + 1 <= N PROVE Summed(V, S, O, U, T(n + 1), A[n + 1])
    BY <1>10
  <2>2. n <= N /\ n + 1 \in 1 .. N /\ (n + 1) - 1 = n
    BY <2>1
  <2>3. Summed(V, S, O, U, T(n), A[n])
    BY <1>10, <1>12, <2>2
  <2>4. PICK a, b, g : a = A[n] /\ b = A[n + 1] /\ g = gpus[n + 1]
    OBVIOUS
  <2>5. b = AddGpu(f, nodes, width, a, g) /\ g \in D
    BY <1>9, <2>2, <2>4 DEF OrderOf
  <2>6. T(n) \subseteq D /\ g \notin T(n)
    <3>1. \A j \in 1 .. n : j \in 1 .. N /\ j # n + 1
      BY <2>2
    <3> QED
      BY <2>2, <2>4, <3>1 DEF OrderOf
  <2>7. T(n + 1) = T(n) \cup {g}
    <3>1. 1 .. n + 1 = (1 .. n) \cup {n + 1}
      OBVIOUS
    <3> QED
      BY <2>4, <3>1
  <2>8. PICK X : X = T(n)
    OBVIOUS
  <2>9. X \subseteq D /\ g \notin X /\ Summed(V, S, O, U, X, a)
    BY <2>3, <2>4, <2>6, <2>8
  <2>10. \A x \in D : /\ f[x] \in [vram : Numeral, sdma : Numeral, occ : Numeral]
                      /\ f[x].occ # Absent
                      /\ V[x] = f[x].vram /\ S[x] = f[x].sdma
                      /\ O[x] = f[x].occ /\ U[x] = nodes[x].cu_count
                      /\ U[x] \in Nat
    BY <1>4 DEF FileNumbers
  <2>11. Cardinality(Part(O, D)) < width
    BY <1>6, <1>7
  <2> HIDE DEF T
  <2>12. Summed(V, S, O, U, X \cup {g}, b)
    BY ONLY width \in Nat, <1>5, <2>5, <2>9, <2>10, <2>11, SumMore
  <2> QED
    BY <2>4, <2>7, <2>8, <2>12
<1>13. N \in Good
  BY <1>11, <1>12, SetInduction
<1>14. T(N) = D
  BY DEF OrderOf
<1>15. Summed(V, S, O, U, D, A[N])
  <2> HIDE DEF T
  <2>1. N <= N
    OBVIOUS
  <2>2. Summed(V, S, O, U, T(N), A[N])
    BY <1>10, <1>13, <2>1
  <2> QED
    BY <1>14, <2>2
<1>16. PICK v, s, o, u, e :
         /\ A[N] = Process(v, s, o, u, e)
         /\ Goes(e) => /\ v = Cardinality(Part(V, D)) /\ s = Cardinality(Part(S, D))
                       /\ o = Cardinality(Part(O, D)) /\ u = Cardinality(Part(U, D))
  BY <1>15, Zenon DEF Summed
<1>17. PICK a : a = A[N]
  OBVIOUS
<1>18. /\ a.vram = v /\ a.sdma = s /\ a.occ = o /\ a.units = u /\ a.err = e
       /\ \A x : [a EXCEPT !.occ = x] = Process(v, s, x, u, e)
  BY ONLY <1>16, <1>17 DEF Process
<1>19. p = IF a.units > 0 /\ ~a.err
           THEN [a EXCEPT !.occ = ((a.occ * 100) % width) \div a.units] ELSE a
  BY <1>8, <1>17, Zenon DEF GetProcessInfoForPID
<1>20. PICK x : x = ((o * 100) % width) \div u
  OBVIOUS
<1>21. p = IF u > 0 /\ Goes(e) THEN Process(v, s, x, u, e) ELSE Process(v, s, o, u, e)
  BY <1>16, <1>17, <1>18, <1>19, <1>20, Zenon DEF Goes
<1>22. /\ p.err = e /\ p.vram = v /\ p.sdma = s
       /\ p.occ = IF u > 0 /\ Goes(e) THEN x ELSE o
  <2>1. CASE u > 0 /\ Goes(e)
    <3>1. p = Process(v, s, x, u, e)
      BY <1>21, <2>1, Zenon
    <3>2. p.err = e /\ p.vram = v /\ p.sdma = s /\ p.occ = x
      BY ONLY <3>1 DEF Process
    <3> QED
      BY <2>1, <3>2, Zenon
  <2>2. CASE ~(u > 0 /\ Goes(e))
    <3>1. p = Process(v, s, o, u, e)
      BY <1>21, <2>2, Zenon
    <3>2. p.err = e /\ p.vram = v /\ p.sdma = s /\ p.occ = o
      BY ONLY <3>1 DEF Process
    <3> QED
      BY <2>2, <3>2, Zenon
  <2> QED
    BY <2>1, <2>2
<1>23. ASSUME Goes(p.err)
       PROVE  /\ p.vram = Cardinality(Tally(V)) /\ p.sdma = Cardinality(Tally(S))
              /\ p.occ = IF Cardinality(Tally(U)) = 0 THEN Cardinality(Tally(O))
                         ELSE (100 * Cardinality(Tally(O))) \div Cardinality(Tally(U))
  <2>1. Goes(e)
    BY <1>22, <1>23
  <2>2. /\ v = Cardinality(Tally(V)) /\ s = Cardinality(Tally(S))
        /\ o = Cardinality(Tally(O)) /\ u = Cardinality(Tally(U)) /\ o = k
    BY <1>3, <1>6, <1>16, <2>1
  <2>3. u \in Nat
    <3>1. IsFiniteSet(Part(U, D))
      BY <1>5, PartFinite DEF Sized
    <3> QED
      BY <1>3, <2>2, <3>1, FS_CardinalityType
  <2>4. (o * 100) % width = 100 * o
    <3>1. o \in Nat /\ 100 * o < width
      BY <1>7, <2>2
    <3>2. PICK r \in Nat : r = 100 * o
      BY <3>1
    <3>3. r < width /\ o * 100 = r
      BY <3>1, <3>2
    <3>4. r % width = r
      BY <3>3
    <3> QED
      BY <3>2, <3>3, <3>4
  <2>5. p.occ = IF u = 0 THEN o ELSE (100 * o) \div u
    <3>1. u > 0 <=> u # 0
      BY <2>3
    <3>2. p.occ = IF u > 0 THEN x ELSE o
      BY <1>22, <2>1, Zenon
    <3>3. x = (100 * o) \div u
      BY <1>20, <2>4
    <3> QED
      BY <3>1, <3>2, <3>3
  <2> QED
    BY <1>22, <2>2, <2>5
<1> QED
  BY <1>1, <1>23, Zenon DEF SumsAre

-----------------------------------------------------------------------------
(* The answers.                                                            *)

\* The devices a set of GPUs names.
LEMMA DevicesNamed ==
  ASSUME NEW s, WellFormed(s), NEW D, NEW of, NEW nodes, Shows(s, D),
         Answers(s, D, of, nodes), \A i \in DOMAIN D : D[i].gpu \in DOMAIN nodes,
         NEW G, \A g \in G \cap DOMAIN nodes :
                  \E n \in GpuNodes(s) : HasCard(s, n) /\ s.nodes[n].gpu = g
  PROVE  {nodes[g].dev : g \in G \cap DOMAIN nodes} = {i \in DOMAIN D : D[i].gpu \in G}
<1>1. ASSUME NEW i \in DOMAIN D
      PROVE  nodes[D[i].gpu].dev = i
  <2>1. PICK n \in GpuNodes(s) : GpuOf(s, D[i], n)
    BY DEF Shows
  <2>2. nodes[D[i].gpu] = Marked(KFDNode(s, n), i)
    BY <2>1 DEF Answers
  <2> QED
    BY <2>2, NodeFields
<1>2. ASSUME NEW g \in G \cap DOMAIN nodes
      PROVE  \E i \in DOMAIN D : D[i].gpu = g
  <2>1. PICK n \in GpuNodes(s) : HasCard(s, n) /\ s.nodes[n].gpu = g
    OBVIOUS
  <2>2. PICK i \in DOMAIN D : D[i].bdf = s.nodes[n].bdf
    BY <2>1 DEF Shows
  <2>3. PICK m \in GpuNodes(s) : GpuOf(s, D[i], m)
    BY DEF Shows
  <2>4. m = n
    <3>1. D[i].bdf = s.nodes[m].bdf
      BY <2>3 DEF GpuOf
    <3>2. s.nodes[m].bdf = s.nodes[n].bdf => m = n
      BY Forms
    <3> QED
      BY <2>2, <3>1, <3>2
  <2> QED
    BY <2>1, <2>3, <2>4 DEF GpuOf
<1>3. ASSUME NEW i \in {nodes[g].dev : g \in G \cap DOMAIN nodes}
      PROVE  i \in DOMAIN D /\ D[i].gpu \in G
  <2>1. PICK g \in G \cap DOMAIN nodes : i = nodes[g].dev
    OBVIOUS
  <2>2. PICK j \in DOMAIN D : D[j].gpu = g
    BY <1>2
  <2> QED
    BY <1>1, <2>1, <2>2
<1>4. ASSUME NEW i \in DOMAIN D, D[i].gpu \in G
      PROVE  i \in {nodes[g].dev : g \in G \cap DOMAIN nodes}
  BY <1>1, <1>4
<1> QED
  BY <1>3, <1>4

\* What NearestPath says of an answer.
PathRight(s, D, of, a) ==
  a.of = "weight" /\ a.src \in DOMAIN D /\ a.dst \in DOMAIN D /\ a.status = "SUCCESS" =>
    IF of[a.dst] \in DOMAIN s.nodes[of[a.src]].links
    THEN a.weight = s.nodes[of[a.src]].links[of[a.dst]].weight
    ELSE PathOf(s, of[a.src], of[a.dst], a.weight)

\* It is what is to be shown of a step.
LEMMA PathPrimed ==
  ASSUME refCount' > 0 => PathRight(sys', devices', nodeOf', answer')
  PROVE  NearestPath'
BY Zenon DEF NearestPath, PathRight, PathOf, Least

\* What the maps tell of two devices.
LEMMA PathTrue ==
  ASSUME NEW s, WellFormed(s), \A n \in GpuNodes(s) : ShownOf(s, n),
         NEW D, NEW of, NEW nodes, Shows(s, D), Answers(s, D, of, nodes),
         NEW ls, LinksKeep(s, ls), LinksNow(s, ls),
         NEW i \in DOMAIN D, NEW j \in DOMAIN D,
         NEW u, u = nodes[D[i].gpu], NEW v, v = nodes[D[j].gpu],
         NEW x, x = u.numa_weight + v.numa_weight
                      + (IF u.numa = v.numa THEN 0
                         ELSE IF <<u.numa, v.numa>> \in DOMAIN ls
                              THEN ls[<<u.numa, v.numa>>] ELSE 10)
  PROVE  /\ of[j] \in DOMAIN u.direct <=> of[j] \in DOMAIN s.nodes[of[i]].links
         /\ of[j] \in DOMAIN u.direct => u.direct[of[j]] = s.nodes[of[i]].links[of[j]]
         /\ PathOf(s, of[i], of[j], x)
<1>1. ASSUME NEW k \in DOMAIN D, NEW w, w = nodes[D[k].gpu]
      PROVE  of[k] \in GpuNodes(s) /\ Says(s, of[k], w)
  <2>1. PICK n \in GpuNodes(s) : GpuOf(s, D[k], n)
    BY DEF Shows
  <2>2. of[k] = n /\ w = Marked(KFDNode(s, n), k)
    BY <1>1, <2>1 DEF Answers
  <2> QED
    BY <2>2, NodeFields
<1>2. PICK n, m : n = of[i] /\ m = of[j]
  OBVIOUS
<1>3. n \in GpuNodes(s) /\ Says(s, n, u) /\ m \in GpuNodes(s) /\ Says(s, m, v)
  BY <1>1, <1>2
<1>4. ShownOf(s, n) /\ ShownOf(s, m)
  BY <1>3
<1>5. PathOf(s, n, m, x)
  BY <1>3, <1>4, PathOverCpus
<1>6. /\ m \in DOMAIN u.direct <=> m \in DOMAIN s.nodes[n].links
      /\ m \in DOMAIN u.direct => u.direct[m] = s.nodes[n].links[m]
  BY <1>3, <1>4, DirectKnown
<1> QED
  BY <1>2, <1>5, <1>6

\* rsmi_topo_get_link_weight answers the weight of the link, or of the path.
LEMMA WeightAnswered ==
  ASSUME LinksShown, NEW K, FdInv, TopoInv, MapsInv(K), NEW t,
         NEW i, NEW j, rsmi_topo_get_link_weight(t, i, j)
  PROVE  AnswersFromTopology'
<1>1. PICK s \in Systems : s = sys
  BY DEF TopoInv
<1>2. PICK D, of, nodes, ls :
        D = devices /\ of = nodeOf /\ nodes = kfdNodes /\ ls = links
  OBVIOUS
<1>3. /\ UNCHANGED <<sys, refCount, devices, maps>> /\ i \in DOMAIN devices
      /\ \E z, w : answer' = [of |-> "weight", src |-> i, dst |-> j, status |-> z,
                              weight |-> w]
  BY Zenon DEF rsmi_topo_get_link_weight, Answer
<1>4. answer'.of = "weight" /\ answer'.src = i /\ answer'.dst = j
  BY <1>3
<1>5. ASSUME refCount > 0, j \in DOMAIN D, answer'.status = "SUCCESS"
      PROVE  IF of[j] \in DOMAIN s.nodes[of[i]].links
             THEN answer'.weight = s.nodes[of[i]].links[of[j]].weight
             ELSE PathOf(s, of[i], of[j], answer'.weight)
  <2>1. PICK u, v : u = nodes[D[i].gpu] /\ v = nodes[D[j].gpu]
    OBVIOUS
  <2>2. u = NodeOf(i) /\ v = NodeOf(j)
    BY <1>2, <2>1 DEF NodeOf
  <2>3. PICK x : x = u.numa_weight + v.numa_weight
                      + (IF u.numa = v.numa THEN 0
                         ELSE IF <<u.numa, v.numa>> \in DOMAIN ls
                              THEN ls[<<u.numa, v.numa>>] ELSE 10)
    OBVIOUS
  <2>4. x = WeightOverCpus(i, j)
    BY <1>2, <2>2, <2>3 DEF WeightOverCpus
  <2>5. /\ WellFormed(s) /\ \A n \in GpuNodes(s) : ShownOf(s, n)
        /\ Shows(s, D) /\ Answers(s, D, of, nodes)
        /\ LinksKeep(s, ls) /\ LinksNow(s, ls) /\ i \in DOMAIN D
    BY <1>1, <1>2, <1>3, <1>5, SystemsAssumption
       DEF SystemsAssumption, LinksShown, ShownOf, TopoInv, MapsInv
  <2>6. /\ of[j] \in DOMAIN u.direct <=> of[j] \in DOMAIN s.nodes[of[i]].links
        /\ of[j] \in DOMAIN u.direct => u.direct[of[j]] = s.nodes[of[i]].links[of[j]]
        /\ PathOf(s, of[i], of[j], x)
    BY <1>5, <2>1, <2>3, <2>5, PathTrue
  <2>7. \/ /\ of[j] \in DOMAIN u.direct
           /\ answer' = [of |-> "weight", src |-> i, dst |-> j, status |-> "SUCCESS",
                         weight |-> u.direct[of[j]].weight]
        \/ /\ of[j] \notin DOMAIN u.direct
           /\ answer' = [of |-> "weight", src |-> i, dst |-> j, status |-> "SUCCESS",
                         weight |-> x]
        \/ \E z \in {"INVALID_ARGS", "NOT_SUPPORTED", "INIT_ERROR"} :
             answer' = [of |-> "weight", src |-> i, dst |-> j, status |-> z,
                        weight |-> 0]
    <3>1. CASE of[j] \notin DOMAIN u.direct /\ u.numa_type = "PCI"
      BY <1>2, <2>2, <2>4, <3>1 DEF rsmi_topo_get_link_weight, Answer
    <3>2. CASE of[j] \notin DOMAIN u.direct /\ u.numa_type # "PCI"
      BY <1>2, <2>2, <2>4, <3>2 DEF rsmi_topo_get_link_weight, Answer
    <3>3. CASE of[j] \in DOMAIN u.direct
      BY <1>2, <2>2, <2>4, <3>3 DEF rsmi_topo_get_link_weight, Answer
    <3> QED
      BY <3>1, <3>2, <3>3
  <2>8. CASE /\ of[j] \in DOMAIN u.direct
             /\ answer'.weight = u.direct[of[j]].weight
    BY <2>6, <2>8
  <2>9. CASE of[j] \notin DOMAIN u.direct /\ answer'.weight = x
    BY <2>6, <2>9
  <2> QED
    BY <1>5, <2>7, <2>8, <2>9
<1>6. refCount' > 0 => PathRight(sys', devices', nodeOf', answer')
  BY <1>1, <1>2, <1>3, <1>4, <1>5 DEF PathRight, maps
<1>7. NearestPath'
  BY <1>6, PathPrimed
<1>8. ProcessesOnTheirGpus' /\ ProcessSums'
  BY <1>4, Zenon DEF ProcessesOnTheirGpus, ProcessSums
<1> QED
  BY <1>7, <1>8 DEF AnswersFromTopology

\* rsmi_compute_process_gpus_get answers the devices of the GPUs.
LEMMA GpusAnswered ==
  ASSUME NEW K, ProcessesShown(K), FdInv, TopoInv, MapsInv(K), NEW t,
         NEW proc \in ProcessFiles(sys), rsmi_compute_process_gpus_get(t, DOMAIN proc)
  PROVE  AnswersFromTopology'
<1>1. PICK s \in Systems : s = sys
  BY DEF TopoInv
<1>2. PICK D, of, nodes, G : /\ D = devices /\ of = nodeOf /\ nodes = kfdNodes
                             /\ G = DOMAIN proc
  OBVIOUS
<1>3. /\ UNCHANGED <<sys, refCount, devices, maps>>
      /\ \E z : answer' = [of |-> "gpus", gpus |-> G,
                           devices |-> {nodes[g].dev : g \in G \cap DOMAIN nodes},
                           status |-> z]
  BY <1>2, Zenon DEF rsmi_compute_process_gpus_get, Answer
<1>4. /\ answer'.of = "gpus" /\ answer'.gpus = G
      /\ answer'.devices = {nodes[g].dev : g \in G \cap DOMAIN nodes}
  BY <1>3
<1>5. ASSUME refCount > 0
      PROVE  answer'.devices = {i \in DOMAIN D : D[i].gpu \in G}
  <2>1. /\ WellFormed(s) /\ Shows(s, D) /\ Answers(s, D, of, nodes)
        /\ \A i \in DOMAIN D : D[i].gpu \in DOMAIN nodes
    BY <1>1, <1>2, <1>5, SystemsAssumption DEF SystemsAssumption, TopoInv, MapsInv
  <2>2. ASSUME NEW g \in G \cap DOMAIN nodes
        PROVE  \E n \in GpuNodes(s) : HasCard(s, n) /\ s.nodes[n].gpu = g
    <3>1. proc \in ProcessFiles(s) /\ g \in DOMAIN proc /\ g \in K[s]
      BY <1>1, <1>2 DEF MapsInv
    <3>2. g \in {s.nodes[n].gpu : n \in {m \in GpuNodes(s) : HasCard(s, m)}}
      BY <3>1 DEF ProcessesShown
    <3> QED
      BY <3>2
  <2>3. {nodes[g].dev : g \in G \cap DOMAIN nodes} = {i \in DOMAIN D : D[i].gpu \in G}
    BY <2>1, <2>2, DevicesNamed
  <2> QED
    BY <1>4, <2>3
<1>6. ProcessesOnTheirGpus'
  BY <1>2, <1>3, <1>4, <1>5 DEF ProcessesOnTheirGpus
<1>7. NearestPath' /\ ProcessSums'
  BY <1>4, Zenon DEF NearestPath, ProcessSums
<1> QED
  BY <1>6, <1>7 DEF AnswersFromTopology

\* What ProcessSums says of an answer.
SumsRight(nodes, a) ==
  a.of = "process" /\ (\A g \in DOMAIN a.files : a.files[g].occ # Absent) =>
    SumsAre(a.files, nodes, DOMAIN a.files, a.proc)

\* It is what is to be shown of a step.
LEMMA SumsPrimed ==
  ASSUME SumsRight(kfdNodes', answer')
  PROVE  ProcessSums'
BY Zenon DEF ProcessSums, SumsRight, SumsAre, Goes

\* The files of the GPUs of D, which may be gone.
FilesOf(proc, D) ==
  [g \in D |-> IF g \in DOMAIN proc THEN proc[g]
               ELSE [vram |-> Absent, sdma |-> Absent, occ |-> Absent]]

\* The occupancies of the GPUs that are known are some of those in the files.
LEMMA FilesTrue ==
  ASSUME NEW s \in Systems, NEW proc \in ProcessFiles(s), NEW D,
         NEW nodes, IsFiniteSet(D), \A g \in D : nodes[g].cu_count \in Nat,
         NEW f, f = FilesOf(proc, D), \A g \in D : f[g].occ # Absent,
         NEW gpus, NEW N \in Nat, Len(gpus) = N, OrderOf(gpus, N, D),
         NEW p, p = GetProcessInfoForPID(f, nodes, OccWidth, gpus)
  PROVE  SumsAre(f, nodes, D, p)
<1>1. ASSUME NEW g \in D
      PROVE  g \in DOMAIN proc /\ f[g] = proc[g]
  <2>1. f[g] = IF g \in DOMAIN proc THEN proc[g]
               ELSE [vram |-> Absent, sdma |-> Absent, occ |-> Absent]
    BY DEF FilesOf
  <2>2. CASE g \notin DOMAIN proc
    <3>1. f[g] = [vram |-> Absent, sdma |-> Absent, occ |-> Absent]
      BY <2>1, <2>2
    <3>2. f[g].occ = Absent
      BY ONLY <3>1
    <3> QED
      BY <3>2
  <2> QED
    BY <2>1, <2>2
<1>2. /\ IsFiniteSet(DOMAIN proc)
      /\ \A g \in DOMAIN proc :
           proc[g] \in [vram : Numeral, sdma : Numeral, occ : Numeral]
      /\ 100 * Cardinality(Tally([g \in DOMAIN proc |-> proc[g].occ])) < OccWidth
  BY FilesAssumption DEF FilesAssumption
<1>3. FileNumbers(f, nodes, D)
  BY <1>1, <1>2 DEF FileNumbers
<1>4. 100 * Cardinality(Tally([g \in D |-> f[g].occ])) < OccWidth
  <2>1. PICK h : h = [g \in DOMAIN proc |-> proc[g].occ]
    OBVIOUS
  <2>2. Part(h, DOMAIN proc) = Tally(h)
    <3>1. h = [g \in DOMAIN proc |-> h[g]]
      BY <2>1
    <3> QED
      BY ONLY <3>1 DEF Part
  <2>3. Part(h, D) = Tally([g \in D |-> f[g].occ])
    <3>1. [g \in D |-> h[g]] = [g \in D |-> f[g].occ]
      BY <1>1, <2>1
    <3> QED
      BY ONLY <3>1 DEF Part
  <2>4. \A g \in DOMAIN proc : h[g] \in Int
    <3>1. \A g \in DOMAIN proc : h[g] \in Numeral
      BY <1>2, <2>1
    <3>2. \A n : n \in Numeral => n \in Int
      BY DEF Numeral, Absent, Broken
    <3> QED
      BY <3>1, <3>2
  <2>5. IsFiniteSet(Part(h, DOMAIN proc))
    BY <1>2, <2>4, PartFinite
  <2>6. PICK a, b : a = Cardinality(Part(h, D)) /\ b = Cardinality(Part(h, DOMAIN proc))
    OBVIOUS
  <2>7. D \subseteq DOMAIN proc
    BY <1>1
  <2>8. a \in Nat /\ a <= b /\ b \in Nat
    BY <2>5, <2>6, <2>7, PartLess, FS_CardinalityType
  <2>9. OccWidth \in Nat
    BY SessionAssumption DEF SessionAssumption
  <2>10. 100 * b < OccWidth
    BY <1>2, <2>1, <2>2, <2>6
  <2>11. 100 * a < OccWidth
    BY ONLY <2>8, <2>9, <2>10
  <2> QED
    BY <2>3, <2>6, <2>11
<1>5. PICK W \in Nat : W = OccWidth
  BY SessionAssumption DEF SessionAssumption
<1> QED
  BY <1>3, <1>4, <1>5, SumsTrue

\* Nothing happens to an answer by itself.
LEMMA AnswersStay ==
  ASSUME AnswersFromTopology, UNCHANGED vars
  PROVE  AnswersFromTopology'
<1>1. UNCHANGED <<sys, refCount, devices, nodeOf, kfdNodes, answer>>
  BY DEF vars, maps
<1>2. ProcessesOnTheirGpus'
  BY <1>1 DEF AnswersFromTopology, ProcessesOnTheirGpus
<1>3. NearestPath'
  <2>1. refCount > 0 => PathRight(sys, devices, nodeOf, answer)
    BY Zenon DEF AnswersFromTopology, NearestPath, PathRight, PathOf, Least
  <2>2. refCount' > 0 => PathRight(sys', devices', nodeOf', answer')
    BY <1>1, <2>1
  <2> QED
    BY <2>2, PathPrimed
<1>4. ProcessSums'
  BY <1>1 DEF AnswersFromTopology, ProcessSums
<1> QED
  BY <1>2, <1>3, <1>4 DEF AnswersFromTopology

\* The sums over all GPUs that are known,
LEMMA PidAnswered ==
  ASSUME NEW K, TopoInv, MapsInv(K), NEW t, NEW proc \in ProcessFiles(sys),
         rsmi_compute_process_info_by_pid_get(t, proc)
  PROVE  AnswersFromTopology'
<1>1. PICK s \in Systems : s = sys
  BY DEF TopoInv
<1>2. PICK nodes, D : nodes = kfdNodes /\ D = DOMAIN nodes
  OBVIOUS
<1>3. PICK f : f = FilesOf(proc, D)
  OBVIOUS
<1>4. /\ kfdNodes' = nodes
      /\ \E gpus \in SetToSeqs(D) :
           answer' = [of |-> "process", files |-> f,
                      proc |-> GetProcessInfoForPID(f, nodes, OccWidth, gpus)]
  BY <1>2, <1>3, Zenon DEF rsmi_compute_process_info_by_pid_get, Answer, maps, FilesOf
<1>5. PICK gpus \in SetToSeqs(D) :
        answer' = [of |-> "process", files |-> f,
                   proc |-> GetProcessInfoForPID(f, nodes, OccWidth, gpus)]
  BY <1>4
<1>6. PICK p : p = GetProcessInfoForPID(f, nodes, OccWidth, gpus)
  OBVIOUS
<1>7. answer'.of = "process" /\ answer'.files = f /\ answer'.proc = p /\ DOMAIN f = D
  BY <1>3, <1>5, <1>6 DEF FilesOf
<1>8. IsFiniteSet(D) /\ \A g \in D : nodes[g].cu_count \in Nat
  BY <1>2 DEF MapsInv, NodesKnown
<1>9. Len(gpus) \in Nat /\ OrderOf(gpus, Len(gpus), D)
  BY <1>8, InSomeOrder
<1>10. ASSUME \A g \in D : f[g].occ # Absent
       PROVE  SumsAre(f, nodes, D, p)
  <2>1. proc \in ProcessFiles(s)
    BY <1>1
  <2> QED
    BY <1>3, <1>6, <1>8, <1>9, <1>10, <2>1, FilesTrue
<1>11. SumsRight(kfdNodes', answer')
  BY <1>4, <1>7, <1>10 DEF SumsRight
<1>12. ProcessSums'
  BY <1>11, SumsPrimed
<1>13. ProcessesOnTheirGpus' /\ NearestPath'
  BY <1>7, Zenon DEF ProcessesOnTheirGpus, NearestPath
<1> QED
  BY <1>12, <1>13 DEF AnswersFromTopology

\* and those over one.
LEMMA DeviceAnswered ==
  ASSUME NEW K, TopoInv, MapsInv(K), NEW t, NEW proc \in ProcessFiles(sys),
         NEW i, rsmi_compute_process_info_by_device_get(t, proc, i)
  PROVE  AnswersFromTopology'
<1>1. PICK s \in Systems : s = sys
  BY DEF TopoInv
<1>2. PICK nodes, g, D : nodes = kfdNodes /\ g = devices[i].gpu /\ D = {g}
  OBVIOUS
<1>3. PICK f : f = FilesOf(proc, D)
  OBVIOUS
<1>4. /\ kfdNodes' = nodes /\ i \in DOMAIN devices
      /\ answer' = [of |-> "process", files |-> f,
                    proc |-> GetProcessInfoForPID(f, nodes, OccWidth, <<g>>)]
  BY <1>2, <1>3, Zenon
     DEF rsmi_compute_process_info_by_device_get, Answer, maps, FilesOf
<1>5. PICK p, gpus : gpus = <<g>> /\ p = GetProcessInfoForPID(f, nodes, OccWidth, gpus)
  OBVIOUS
<1>6. answer'.of = "process" /\ answer'.files = f /\ answer'.proc = p /\ DOMAIN f = D
  BY <1>3, <1>4, <1>5 DEF FilesOf
<1>7. IsFiniteSet(D) /\ \A x \in D : nodes[x].cu_count \in Nat
  <2>1. IsFiniteSet(D)
    BY <1>2, FS_Singleton
  <2>2. g \in DOMAIN nodes
    BY <1>2, <1>4 DEF MapsInv
  <2> QED
    BY <1>2, <2>1, <2>2 DEF MapsInv, NodesKnown
<1>8. Len(gpus) = 1 /\ gpus[1] = g
  BY <1>5
<1>9. OrderOf(gpus, 1, D)
  BY <1>2, <1>8 DEF OrderOf
<1>10. ASSUME \A x \in D : f[x].occ # Absent
       PROVE  SumsAre(f, nodes, D, p)
  <2>1. proc \in ProcessFiles(s)
    BY <1>1
  <2> QED
    BY <1>3, <1>5, <1>7, <1>8, <1>9, <1>10, <2>1, FilesTrue
<1>11. SumsRight(kfdNodes', answer')
  BY <1>4, <1>6, <1>10 DEF SumsRight
<1>12. ProcessSums'
  BY <1>11, SumsPrimed
<1>13. ProcessesOnTheirGpus' /\ NearestPath'
  BY <1>6, Zenon DEF ProcessesOnTheirGpus, NearestPath
<1> QED
  BY <1>12, <1>13 DEF AnswersFromTopology

\* Every other call answers something else, or nothing.
LEMMA AnswersOther ==
  ASSUME answer'.of \in {"none", "count", "memory"}
  PROVE  AnswersFromTopology'
<1>1. answer'.of # "gpus" /\ answer'.of # "weight" /\ answer'.of # "process"
  OBVIOUS
<1> QED
  BY <1>1, Zenon DEF AnswersFromTopology, ProcessesOnTheirGpus, NearestPath, ProcessSums

\* Which those are.
LEMMA AnswerFrame ==
  ASSUME \/ \E t \in Threads :
              \/ \E all \in BOOLEAN : rsmi_init(t, all)
              \/ rsmi_shut_down(t) \/ Notify(t)
              \/ rsmi_test_refcount(t)
              \/ \E i \in DOMAIN devices, a \in {1, 9} : MemoryOfNode(t, i, a)
         \/ \E f \in Fds : Raise(f)
         \/ AppOpens
         \/ \E s \in Systems : Repartition(s)
  PROVE  answer'.of \in {"none", "count", "memory"}
<1>1. NoAnswer.of = "none"
  BY DEF NoAnswer
<1>2. ASSUME NEW t \in Threads, NEW all \in BOOLEAN,
             rsmi_init(t, all) \/ rsmi_shut_down(t)
      PROVE  answer' = NoAnswer
  BY Zenon, <1>2 DEF rsmi_init, rsmi_shut_down
<1>3. ASSUME NEW t \in Threads, Notify(t)
      PROVE  answer' = NoAnswer
  <2>1. ASSUME NextFile(t) \/ ReadEvent(t) \/ EndOfFile(t) \/ ReadClosed(t)
               \/ PollEnds(t) \/ GetReturns(t)
        PROVE  answer' = NoAnswer
    <3>1. Getting(t)
      BY Zenon, <2>1 DEF NextFile, ReadEvent, EndOfFile, ReadClosed, PollEnds,
         GetReturns, PassEnded
    <3> QED
      BY <3>1 DEF Getting
  <2>2. ASSUME NEW i \in DOMAIN devices,
               \/ rsmi_event_notification_init(t, i)
               \/ rsmi_event_notification_mask_set(t, i)
               \/ rsmi_event_notification_stop(t, i)
        PROVE  answer' = NoAnswer
    BY Zenon, <2>2 DEF rsmi_event_notification_init, rsmi_event_notification_mask_set,
       rsmi_event_notification_stop
  <2>3. ASSUME NEW room \in 1 .. MaxRoom, rsmi_event_notification_get(t, room)
        PROVE  answer' = NoAnswer
    BY Zenon, <2>3 DEF rsmi_event_notification_get
  <2> QED
    BY Zenon, <1>3, <2>1, <2>2, <2>3 DEF Notify
<1>4. ASSUME NEW t \in Threads, rsmi_test_refcount(t)
      PROVE  answer'.of = "count"
  BY <1>4 DEF rsmi_test_refcount
<1>5. ASSUME NEW t \in Threads, NEW i \in DOMAIN devices, NEW a \in {1, 9},
             MemoryOfNode(t, i, a)
      PROVE  answer'.of = "memory"
  BY <1>5 DEF MemoryOfNode, Answer
<1>6. ASSUME (\E f \in Fds : Raise(f)) \/ AppOpens \/ \E s \in Systems : Repartition(s)
      PROVE  answer' = NoAnswer
  BY Zenon, <1>6 DEF Raise, AppOpens, Repartition
<1>7. CASE answer' = NoAnswer
  BY <1>1, <1>7
<1> QED
  BY <1>2, <1>3, <1>4, <1>5, <1>6, <1>7

\* Every step leaves a true answer, or none.
LEMMA AnswersStep ==
  ASSUME LinksShown, NEW K, ProcessesShown(K), FdInv, TopoInv, MapsInv(K),
         AnswersFromTopology, [Next]_vars
  PROVE  AnswersFromTopology'
<1>1. CASE \E t : \E i, j : rsmi_topo_get_link_weight(t, i, j)
  BY <1>1, WeightAnswered
<1>2. CASE \E t : \E proc \in ProcessFiles(sys) :
             rsmi_compute_process_gpus_get(t, DOMAIN proc)
  BY <1>2, GpusAnswered
<1>3. CASE \E t : \E proc \in ProcessFiles(sys) :
             rsmi_compute_process_info_by_pid_get(t, proc)
  BY <1>3, PidAnswered
<1>4. CASE \E t : \E proc \in ProcessFiles(sys) : \E i :
             rsmi_compute_process_info_by_device_get(t, proc, i)
  BY <1>4, DeviceAnswered
<1>5. CASE answer'.of \in {"none", "count", "memory"}
  BY <1>5, AnswersOther
<1>6. CASE UNCHANGED vars
  BY <1>6, AnswersStay
<1> QED
  BY Zenon, <1>1, <1>2, <1>3, <1>4, <1>5, <1>6, AnswerFrame DEF Next, Query

\* Nobody has asked yet.
LEMMA AnswersBegin == Init => AnswersFromTopology
<1>1. ASSUME Init
      PROVE  answer.of # "gpus" /\ answer.of # "weight" /\ answer.of # "process"
  BY <1>1 DEF Init, NoAnswer
<1> QED
  BY <1>1, Zenon DEF AnswersFromTopology, ProcessesOnTheirGpus, NearestPath, ProcessSums

\* What a session answers about processes and links is true of the system that
\* is there now: the devices of a process are those of its GPUs, the weight
\* between two devices is that of their link or of a path over their nearest
\* CPUs, and the sums of a process are those of its files, although the maps
\* they are taken from keep what earlier sessions stored.  The kernel links
\* nodes as LinksShown says, and K bounds the GPUs the library may have seen.
THEOREM AnswersAreTrue ==
  ASSUME ~CallerReinits, LinksShown, NEW K, ProcessesShown(K)
  PROVE  Spec => []AnswersFromTopology
<1>1. FdInv /\ TopoInv /\ [Next]_vars => TopoInv'
  BY TopoStep
<1>2. FdInv /\ TopoInv /\ MapsInv(K) /\ [Next]_vars => MapsInv(K)'
  BY MapsStep
<1>3. FdInv /\ TopoInv /\ MapsInv(K) /\ AnswersFromTopology /\ [Next]_vars
        => AnswersFromTopology'
  BY AnswersStep
<1>4. Init => MapsInv(K)
  BY MapsBegin
<1> QED
  BY <1>1, <1>2, <1>3, <1>4, TopoBegins, AnswersBegin, FdInvariant, PTL DEF Spec

-----------------------------------------------------------------------------
(***************************************************************************)
(* The mutex that the processes of the library share excludes and can be   *)
(* recovered, for any number of processes that start, call, stop and are   *)
(* killed in any order.                                                    *)
(***************************************************************************)
(* A process between lock and unlock is the one the mutex names.           *)
OwnerInv == spoiled \/ \A p \in Live : Holds(p) => owner = p

(* A process that started alone: nobody else is there, and a mutex that it *)
(* has made anew can be locked.                                            *)
AloneInv == \A p \in alone :
  /\ Live \subseteq {p}
  /\ pc[p] # "failed"
  /\ retried[p] /\ pc[p] = "lock" => owner = None /\ state # "unusable"
  /\ pc[p] = "consistent" => Inherited

MutexInv == TypeOK /\ OwnerInv /\ AloneInv

MutexStep(p) == Start(p) \/ InitStep(p) \/ Acquire(p) \/ Release(p) \/ Close(p) \/ Die(p)

USE DEF mutex

LEMMA TypeStep ==
  ASSUME TypeOK, NEW p \in Procs, MutexStep(p)
  PROVE  TypeOK'
<1> USE DEF TypeOK, Goto
<1>1. CASE Start(p)
  BY <1>1 DEF Start
<1>2. CASE OpenExisting(p) \/ OpenMissing(p) \/ Create(p)
  BY <1>2 DEF OpenExisting, OpenMissing, Create
<1>3. CASE InitMutex(p) \/ Reset(p)
  <2>1. spoiled' \in BOOLEAN
    BY <1>3 DEF InitMutex, Reset, Overwritten
  <2>2. QED  BY <1>3, <2>1 DEF InitMutex, Reset, Overwritten
<1>4. CASE TimedLock(p)
  BY <1>4 DEF TimedLock, LockedBy
<1>5. CASE TimedLockFails(p) \/ Consistent(p) \/ ConsistentFails(p)
  BY <1>5 DEF TimedLockFails, Consistent, ConsistentFails
<1>6. CASE InitUnlock(p) \/ Release(p)
  BY <1>6 DEF InitUnlock, Release, UnlockedBy
<1>7. CASE Acquire(p)
  <2>1. spoiled' \in BOOLEAN
    BY <1>7 DEF Acquire
  <2>2. QED  BY <1>7, <2>1 DEF Acquire, LockedBy
<1>8. CASE Close(p) \/ Die(p)
  BY <1>8 DEF Close, Die
<1>9. QED
  BY <1>1, <1>2, <1>3, <1>4, <1>5, <1>6, <1>7, <1>8 DEF MutexStep, InitStep

(* A step moves one process only.                                          *)
LEMMA OthersStay ==
  ASSUME TypeOK, NEW p \in Procs, MutexStep(p), NEW q \in Procs \ {p}
  PROVE  pc'[q] = pc[q]
BY DEF TypeOK, MutexStep, InitStep, Goto, Start, OpenExisting, OpenMissing, Create,
       InitMutex, Reset, TimedLock, TimedLockFails, Consistent, ConsistentFails,
       InitUnlock, Release, Acquire, Close, Die

(* Whoever could lock the mutex while p holds it would have to be p.       *)
LEMMA HeldByLive ==
  ASSUME TypeOK, SharedMutexAssumption, NEW p \in Live, owner = p
  PROVE  ~Unlocked /\ ~Orphaned
BY DEF TypeOK, SharedMutexAssumption, Unlocked, Orphaned, Live, Dead

LEMMA OwnerStep ==
  ASSUME TypeOK, OwnerInv, NEW p \in Procs, MutexStep(p)
  PROVE  OwnerInv'
<1> USE SharedMutexAssumption
<1>0. TypeOK'
  BY TypeStep
<1> SUFFICES ASSUME ~spoiled', NEW q \in Live', Holds(q)'
             PROVE  owner' = q
  BY DEF OwnerInv
<1>1. spoiled \in BOOLEAN /\ (spoiled => spoiled')
  <2>1. CASE InitMutex(p) \/ Reset(p) \/ Acquire(p)
    BY <2>1 DEF TypeOK, InitMutex, Reset, Overwritten, Acquire
  <2>2. CASE ~(InitMutex(p) \/ Reset(p) \/ Acquire(p))
    BY <2>2 DEF TypeOK, MutexStep, InitStep, Start, OpenExisting, OpenMissing, Create,
       TimedLock, TimedLockFails, Consistent, ConsistentFails, InitUnlock, Release,
       Close, Die
  <2>3. QED  BY <2>1, <2>2
<1>2. \A r \in Live : Holds(r) => owner = r
  BY <1>1 DEF OwnerInv
<1>3. q \in Procs
  BY DEF Live
<1>4. q # p => q \in Live /\ Holds(q) /\ owner = q
  BY <1>2, <1>3, OthersStay DEF Live, Holds
<1>5. CASE Start(p) \/ OpenExisting(p) \/ OpenMissing(p) \/ Create(p)
           \/ TimedLockFails(p) \/ ConsistentFails(p) \/ Close(p) \/ Die(p)
  <2>1. owner' = owner
    BY <1>5 DEF Start, OpenExisting, OpenMissing, Create, TimedLockFails,
                ConsistentFails, Close, Die
  <2>2. q # p
    BY <1>5 DEF TypeOK, Goto, Holds, Live, Start, OpenExisting, OpenMissing,
                Create, TimedLockFails, ConsistentFails, Close, Die
  <2>3. QED  BY <1>4, <2>1, <2>2
<1>6. CASE InitMutex(p) \/ Reset(p)
  <2>1. q # p
    BY <1>6 DEF TypeOK, Goto, Holds, InitMutex, Reset
  <2>2. spoiled'
    BY <1>4, <1>6, <2>1 DEF InitMutex, Reset, Overwritten
  <2>3. QED  BY <2>2
<1>7. CASE TimedLock(p)
  <2>1. owner' = p
    BY <1>7 DEF TimedLock, LockedBy
  <2>2. q = p
    BY <1>4, <1>7, HeldByLive DEF TimedLock
  <2>3. QED  BY <2>1, <2>2
<1>8. CASE Consistent(p)
  <2>1. owner' = owner /\ p \in Live /\ Holds(p)
    BY <1>8 DEF Consistent, Goto, Live, Holds
  <2>2. QED  BY <1>2, <1>4, <2>1
<1>9. CASE InitUnlock(p) \/ Release(p)
  <2>1. q # p /\ p \in Live /\ Holds(p)
    BY <1>9 DEF TypeOK, InitUnlock, Release, Goto, Live, Holds
  <2>2. QED  BY <1>2, <1>4, <2>1
<1>10. CASE Acquire(p)
  <2>1. state # "unusable"
    BY <1>10 DEF Acquire
  <2>2. (Unlocked \/ Orphaned) /\ owner' = p
    BY <1>10, <2>1 DEF Acquire, LockedBy
  <2>3. q = p
    BY <1>4, <2>2, HeldByLive
  <2>4. QED  BY <2>2, <2>3
<1>11. QED
  BY <1>5, <1>6, <1>7, <1>8, <1>9, <1>10 DEF MutexStep, InitStep

(* A process starts alone where no other is there, and the start of any    *)
(* process ends the loneliness of the others.                              *)
LEMMA AloneStep ==
  ASSUME TypeOK, AloneInv, NEW p \in Procs, MutexStep(p)
  PROVE  AloneInv'
<1> USE SharedMutexAssumption
<1>0. TypeOK'
  BY TypeStep
<1> SUFFICES ASSUME NEW q \in alone'
             PROVE  /\ Live' \subseteq {q}
                    /\ pc'[q] # "failed"
                    /\ retried'[q] /\ pc'[q] = "lock"
                         => owner' = None /\ state' # "unusable"
                    /\ pc'[q] = "consistent" => Inherited'
  BY DEF AloneInv
<1>1. q \in Procs
  BY <1>0 DEF TypeOK
<1>2. CASE Start(p)
  <2>1. q = p /\ Live = {} /\ pc'[p] = "open"
    BY <1>2 DEF Start, Goto, TypeOK
  <2>2. Live' \subseteq {p}
    BY <2>1, OthersStay DEF Live
  <2>3. QED  BY <2>1, <2>2
<1>3. CASE ~Start(p)
  <2>1. q \in alone /\ p \in Live
    BY <1>3 DEF MutexStep, InitStep, Goto, Live, OpenExisting, OpenMissing, Create,
       InitMutex, Reset, TimedLock, TimedLockFails, Consistent, ConsistentFails,
       InitUnlock, Release, Acquire, Close, Die
  <2>2. q = p
    BY <2>1 DEF AloneInv
  <2>3. Live' \subseteq {q}
    <3>1. \A r \in Procs \ {p} : r \notin Live
      BY <2>1, <2>2 DEF AloneInv
    <3>2. QED  BY <2>2, <3>1, OthersStay DEF Live
  <2>4. pc[p] # "failed" /\ (pc[p] = "consistent" => Inherited)
        /\ (retried[p] /\ pc[p] = "lock" => ~Held /\ state # "unusable")
    BY <2>1, <2>2 DEF AloneInv, Held
  <2>5. CASE TimedLockFails(p)
    <3>1. ~retried[p]
      BY <2>4, <2>5 DEF TimedLockFails, Goto
    <3>2. pc'[p] = "reset"
      BY <2>5, <3>1 DEF TimedLockFails, Goto, TypeOK, lsof
    <3>3. QED  BY <2>2, <2>3, <3>2
  <2>6. CASE InitMutex(p)
    BY <2>2, <2>3, <2>6 DEF InitMutex, Overwritten, Goto, TypeOK
  <2>7. CASE OpenExisting(p)
    <3>1. pc'[p] = "init" \/ (pc'[p] = "lock" /\ ~retried'[p])
      BY <2>7 DEF OpenExisting, Goto, TypeOK
    <3>2. QED  BY <2>2, <2>3, <3>1
  <2>8. CASE TimedLock(p)
    <3>1. pc'[p] = (IF Orphaned THEN "consistent" ELSE "unlock")
      BY <2>8 DEF TimedLock, Goto, TypeOK
    <3>2. Orphaned => Inherited'
      BY <2>8 DEF TimedLock, LockedBy, Orphaned, Inherited
    <3>3. QED  BY <2>2, <2>3, <3>1, <3>2
  <2>9. CASE ConsistentFails(p)
    BY <2>4, <2>9 DEF ConsistentFails, Goto
  <2>10. CASE ~(TimedLockFails(p) \/ InitMutex(p) \/ OpenExisting(p) \/ TimedLock(p)
                \/ ConsistentFails(p))
    <3>1. pc'[p] \notin {"failed", "lock", "consistent"}
      BY <1>3, <2>10 DEF MutexStep, InitStep, TypeOK, Goto, OpenMissing, Create, Reset,
         Consistent, InitUnlock, Release, Acquire, Close, Die
    <3>2. QED  BY <2>2, <2>3, <3>1
  <2>11. QED  BY <2>5, <2>6, <2>7, <2>8, <2>9, <2>10
<1>4. QED  BY <1>2, <1>3

LEMMA MutexInvariance == MutexSpec => []MutexInv
<1>1. MutexInit => MutexInv
  BY DEF MutexInit, MutexInv, TypeOK, OwnerInv, AloneInv, Live, Holds
<1>2. MutexInv /\ [MutexNext]_mutexVars => MutexInv'
  <2> SUFFICES ASSUME MutexInv, [MutexNext]_mutexVars  PROVE MutexInv'
    OBVIOUS
  <2>1. CASE MutexNext
    <3>1. PICK p \in Procs : MutexStep(p)
      BY <2>1 DEF MutexNext, MutexStep
    <3>2. QED  BY <3>1, TypeStep, OwnerStep, AloneStep DEF MutexInv
  <2>2. CASE UNCHANGED mutexVars
    BY <2>2 DEF mutexVars, MutexInv, TypeOK, OwnerInv, AloneInv, Live, Holds,
       Inherited
  <2>3. QED  BY <2>1, <2>2
<1>3. QED  BY <1>1, <1>2, PTL DEF MutexSpec

(* Type correctness of the shared mutex and of the processes that use it.  *)
THEOREM MutexTypeCorrect == MutexSpec => []TypeOK
<1>1. MutexInv => TypeOK
  BY DEF MutexInv
<1>2. QED  BY <1>1, MutexInvariance, PTL

(* Two live processes are never inside the device at once, whoever dies    *)
(* and whoever times out, unless a held mutex was overwritten or the mutex *)
(* was beyond recovery.                                                    *)
THEOREM Exclusion == MutexSpec => []Exclusive
<1>1. MutexInv => Exclusive
  BY DEF MutexInv, OwnerInv, Exclusive, Live, Holds
<1>2. QED  BY <1>1, MutexInvariance, PTL

(* Whatever dead processes left behind, a process that is alone starts.    *)
THEOREM Recovery == MutexSpec => []LoneStarterSucceeds
<1>1. MutexInv => LoneStarterSucceeds
  BY DEF MutexInv, AloneInv, LoneStarterSucceeds
<1>2. QED  BY <1>1, MutexInvariance, PTL

=============================================================================
