----------------------------- MODULE RsmiSession -----------------------------
(***************************************************************************)
(* What RocmSMI keeps between rsmi_init and rsmi_shut_down, and beyond:    *)
(* the reference count, the devices, the maps of KFD nodes and links that  *)
(* Cleanup leaves alone, the descriptor of /dev/kfd that it closes and     *)
(* leaves set, and the event notifications of the devices.                 *)
(*                                                                         *)
(* rsmi_init and rsmi_shut_down hold the bootstrap mutex, and the          *)
(* notification calls that of the handle, so each is one step; only        *)
(* rsmi_event_notification_get holds none: it reads an event at a time,    *)
(* and waits between its two passes over the files.  Descriptors are       *)
(* numbers the process shares with its other code, and the lowest free one *)
(* is taken.                                                               *)
(*                                                                         *)
(* Callers keep to rocm_smi.h: calls are made between a thread's init and  *)
(* shut-down, a device is prepared once, and each is stopped before the    *)
(* last shut-down.  The cards may be repartitioned while nobody is in.     *)
(***************************************************************************)
EXTENDS RsmiDiscovery

CONSTANTS
  Threads, Listeners,   \* the threads, and those that use notifications
  Systems,              \* what sysfs may show
  Repartitions,         \* pairs of systems: one may become the other
  ProcessFiles(_),      \* what KFD may tell of a process, in a system
  CallerReinits,        \* callers initialise again after a notification
                        \* that failed
  MaxRef, MaxFd,        \* INT32_MAX, and the descriptor limit
  MaxEvents, MaxRoom,   \* bounds: events raised, and room of a buffer
  MaxFailures,          \* bound: notifications that fail late
  OccWidth              \* 2^32

ASSUME SessionAssumption ==
  /\ Listeners \subseteq Threads
  /\ {MaxRef, MaxFd, MaxEvents, MaxRoom, MaxFailures, OccWidth} \subseteq Nat \ {0}

ASSUME SystemsAssumption == \A s \in Systems : WellFormed(s)

VARIABLES
  sys,        \* what sysfs shows now
  refCount, devices,
  nodeOf,     \* dev_ind_to_node_ind_map_
  kfdNodes,   \* kfd_node_map_
  links,      \* io_link_map_
  fh, fhRefs, \* kfd_notif_evt_fh and its count
  open,       \* the descriptors: what each is, of which GPU, unread events
  inits,      \* by thread: its calls of rsmi_init not shut down
  get,        \* by thread: the call of rsmi_event_notification_get
  answer,     \* what the last query returned, and for which arguments
  raised, taken, lost,  \* events so far: raised, delivered, closed upon
  failed,     \* notifications that failed after they were counted
  unopened,   \* an fdopen failed in this session
  misused     \* a file was used that is not that of a device

maps == <<nodeOf, kfdNodes, links>>
handle == <<fh, fhRefs>>
events == <<raised, taken, lost>>
flags == <<failed, unopened, misused>>
vars == <<sys, refCount, devices, maps, handle, open, inits, get, answer,
          events, flags>>

Fds == 1 .. MaxFd
Free == [kind |-> "free", gpu |-> 0, unread |-> 0]
FreeFds == {f \in Fds : open[f].kind = "free"}
LowestOf(S) == {f \in S : \A e \in S : f <= e}
IsNotification(f) == f \in Fds /\ open[f].kind \in {"anon", "listening"}

\* A call of rsmi_event_notification_get: room is that of the buffer, 0 when
\* nobody calls, and items what is in it; fds are the descriptors of the
\* devices it looks at; left are those of this pass over their files, and dev
\* and file the one that is read now; polled says which pass it is.
Idle == [room |-> 0, items |-> <<>>, fds |-> <<>>, left |-> {}, dev |-> 0,
         file |-> NoFile, polled |-> FALSE]
NoAnswer == [of |-> "none"]
Started == {i \in DOMAIN devices : devices[i].fd # NoFile}

Init ==
  /\ sys \in Systems
  /\ refCount = 0 /\ devices = <<>>
  /\ nodeOf = <<>> /\ kfdNodes = <<>> /\ links = <<>>
  /\ fh = NoFile /\ fhRefs = 0
  /\ open = [f \in Fds |-> Free]
  /\ inits = [t \in Threads |-> 0]
  /\ get = [t \in Threads |-> Idle]
  /\ answer = NoAnswer
  /\ raised = 0 /\ taken = 0 /\ lost = 0
  /\ failed = 0 /\ unopened = FALSE /\ misused = FALSE

\* t may call: it is not waiting in a call.
Calls(t) == get[t].room = 0
\* t is between its init and its shut-down.
Inside(t) == Calls(t) /\ inits[t] > 0
-----------------------------------------------------------------------------
(* Initialisation and shut-down.                                           *)

\* The handle is closed, and stays set; when it was closed before, close fails
\* or hits a file of somebody else, and the call throws FILE_ERROR.
Cleanup ==
  /\ devices' = <<>>
  /\ open' = IF fh = NoFile THEN open ELSE [open EXCEPT ![fh] = Free]
  /\ unopened' = FALSE

\* New entries of a map replace old ones, and old ones stay.
Over(new, old) ==
  [x \in DOMAIN new \cup DOMAIN old |-> IF x \in DOMAIN new THEN new[x] ELSE old[x]]

\* The devices and the maps of a successful Initialize.
\* mutant: devices are numbered before those without a node are dropped
NumberedEarly(devs, kfd) ==
  LET all == StableSort(ConstructBDFID(sys, devs))
      Ind(b) == CHOOSE i \in DOMAIN all : all[i].bdf = b
  IN [g \in {kfd[devices'[i].bdf].gpu : i \in DOMAIN devices'} |->
        LET i == CHOOSE i \in DOMAIN devices' : devices'[i].gpu = g
        IN [kfd[devices'[i].bdf] EXCEPT !.dev = Ind(devices'[i].bdf)]]
Numbered(devs, kfd) ==
  [g \in {devices'[i].gpu : i \in DOMAIN devices'} |->
     LET i == Max({j \in DOMAIN devices' : devices'[j].gpu = g})
     IN [kfd[devices'[i].bdf] EXCEPT !.dev = i]]
Initialize(all) ==
  \E devs \in DiscoverAmdgpuDevices(sys, all) :
    LET kfd == DiscoverKFDNodes(sys) IN
      /\ ~NodeThrows(sys)
      /\ devices' = Matched(sys, devs, kfd)
      /\ nodeOf' = Over([i \in DOMAIN devices' |-> kfd[devices'[i].bdf].node],
                    nodeOf)
      /\ kfdNodes' = Over(Numbered(devs, kfd), kfdNodes)
      /\ links' = Over(DiscoverIOLinks(sys), links)
      /\ UNCHANGED <<open, unopened>>

\* A directory that cannot be opened, or a node that lacks a property, throws;
\* Cleanup may throw again.
InitializeThrows ==
  /\ Cleanup
  /\ UNCHANGED <<refCount, inits, maps>>

rsmi_init(t, all) ==
  /\ Calls(t)
  /\ refCount = 0 /\ fh # NoFile => CallerReinits
  /\ \/ /\ refCount = MaxRef
        /\ UNCHANGED <<refCount, inits, devices, maps, open, unopened>>
     \/ /\ refCount < MaxRef
        /\ refCount' = refCount + 1
        /\ inits' = [inits EXCEPT ![t] = @ + 1]
        /\ IF refCount = 0 THEN Initialize(all)
           ELSE UNCHANGED <<devices, maps, open, unopened>>
     \/ refCount = 0 /\ InitializeThrows
  /\ answer' = NoAnswer
  /\ UNCHANGED <<sys, handle, get, events, failed, misused>>

\* The mutexes of the devices are unlocked too, which only fails.
rsmi_shut_down(t) ==
  /\ Calls(t) /\ get' = [get EXCEPT ![t] = Idle]
  /\ IF refCount = 0
     THEN UNCHANGED <<refCount, inits, devices, open, unopened>>
     ELSE /\ inits[t] > 0 /\ (refCount = 1 => Started = {})
          /\ refCount' = refCount - 1
          /\ inits' = [inits EXCEPT ![t] = @ - 1]
          /\ IF refCount = 1 THEN Cleanup
             ELSE UNCHANGED <<devices, open, unopened>>
  /\ answer' = NoAnswer
  /\ UNCHANGED <<sys, maps, handle, events, failed, misused>>

\* rsmi_num_monitor_devices and rsmi_test_refcount look and lock nothing.
rsmi_test_refcount(t) ==
  /\ Calls(t)
  /\ answer' = [of |-> "count", devices |-> Len(devices),
                refs |-> IF refCount = 0 /\ devices # <<>> THEN -1
                         ELSE refCount]
  /\ UNCHANGED <<sys, refCount, devices, maps, handle, open, inits, get,
                 events, flags>>
-----------------------------------------------------------------------------
(* Event notifications.                                                    *)

\* The handle and the descriptors once it is open: it is opened for the first
\* device.
Handles ==
  IF fh # NoFile THEN {<<fh, open>>}
  ELSE {<<f, [open EXCEPT ![f] = [Free EXCEPT !.kind = "kfd"]]>> :
          f \in LowestOf(FreeFds)}

\* mutant: the handle is counted when it is opened
CountOpened == fhRefs' = IF fh = NoFile THEN fhRefs + 1 ELSE fhRefs
Count == fhRefs' = fhRefs + 1

\* The count is not given back when something fails after it: the ioctl, or
\* the fdopen of its descriptor.
rsmi_event_notification_init(t, i) ==
  /\ Inside(t) /\ devices[i].fd = NoFile
  /\ \/ /\ fh = NoFile            \* cannot be opened, or is too old
        /\ UNCHANGED <<devices, handle, open, failed, unopened>>
     \/ \E handle_ \in Handles :
          LET h == handle_[1]   o == handle_[2] IN
          /\ fh' = h /\ Count
          /\ \/ /\ failed < MaxFailures
                /\ open' = o /\ failed' = failed + 1
                /\ UNCHANGED <<devices, unopened>>
             \/ \E anon \in LowestOf({f \in Fds : o[f].kind = "free"}) :
                  /\ o[h].kind = "kfd" /\ UNCHANGED failed
                  /\ \/ /\ devices' = [devices EXCEPT ![i].fd = anon]
                        /\ open' = o /\ unopened' = TRUE
                     \/ /\ devices' = [devices EXCEPT ![i].fd = anon,
                                                      ![i].file = anon]
                        /\ open' = [o EXCEPT ![anon] =
                                      [kind |-> "anon", gpu |-> devices[i].gpu,
                                       unread |-> 0]]
                        /\ UNCHANGED unopened
  /\ answer' = NoAnswer
  /\ UNCHANGED <<sys, refCount, maps, inits, get, events, misused>>

rsmi_event_notification_mask_set(t, i) ==
  /\ Inside(t)
  /\ IF devices[i].fd = NoFile
     THEN UNCHANGED <<open, misused>>
     ELSE IF IsNotification(devices[i].fd)
     THEN /\ open' = [open EXCEPT ![devices[i].fd].kind = "listening"]
          /\ UNCHANGED misused
     ELSE /\ misused' = TRUE /\ UNCHANGED open
  /\ answer' = NoAnswer
  /\ UNCHANGED <<sys, refCount, devices, maps, handle, inits, get,
                 events, failed, unopened>>
Stopped(i) == devices' = [devices EXCEPT ![i].fd = NoFile, ![i].file = NoFile]

\* The descriptor of /dev/kfd is closed with the last notification.
\* mutant: and stays set
CloseHandle(o) ==
  /\ fhRefs' = fhRefs - 1 /\ UNCHANGED fh
  /\ open' = IF fhRefs = 1 THEN [o EXCEPT ![fh] = Free] ELSE o
ReleaseHandle(o) ==
  /\ fhRefs' = fhRefs - 1
  /\ fh' = IF fhRefs = 1 THEN NoFile ELSE fh
  /\ open' = IF fhRefs = 1 THEN [o EXCEPT ![fh] = Free] ELSE o

rsmi_event_notification_stop(t, i) ==
  /\ Inside(t)
  /\ IF devices[i].fd = NoFile
     THEN UNCHANGED <<devices, handle, open, lost, misused>>
     ELSE IF ~IsNotification(devices[i].file)
     THEN /\ misused' = TRUE       \* fclose of a null pointer
          /\ UNCHANGED <<devices, handle, open, lost>>
     ELSE LET f == devices[i].file
          IN /\ Stopped(i)
             /\ lost' = lost + open[f].unread
             /\ ReleaseHandle([open EXCEPT ![f] = Free])
             /\ UNCHANGED misused
  /\ answer' = NoAnswer
  /\ UNCHANGED <<sys, refCount, maps, inits, get, raised, taken,
                 failed, unopened>>

\* The call starts with the devices that have a notification.
rsmi_event_notification_get(t, room) ==
  /\ Inside(t)
  /\ get' = [get EXCEPT ![t] =
               [Idle EXCEPT !.room = room,
                            !.fds  = [i \in Started |-> devices[i].fd],
                            !.left = Started]]
  /\ answer' = NoAnswer
  /\ UNCHANGED <<sys, refCount, devices, maps, handle, open, inits, events,
                 flags>>

\* A step of the call that leaves the files alone.
Getting(t) ==
  /\ get[t].room # 0
  /\ answer' = NoAnswer
  /\ UNCHANGED <<sys, refCount, devices, maps, handle, inits, raised, lost,
                 failed, unopened>>

\* fill_data_buffer: the file of the next device ...
NextFile(t) ==
  /\ Getting(t) /\ get[t].dev = 0
  /\ \E i \in LowestOf(get[t].left) :
       get' = [get EXCEPT ![t].dev = i, ![t].file = devices[i].file,
                          ![t].left = @ \ {i}]
  /\ UNCHANGED <<open, taken, misused>>

\* ... is read until it has no more or the buffer is full.  A file that is not
\* that of a notification is one that is closed, or null.
\* mutant: an event carries the place of its file, not that of its device
PlaceOfFile(g) ==
  <<Cardinality({i \in DOMAIN g.fds : i <= g.dev}), open[g.file].gpu>>
Item(g) == <<g.dev, open[g.file].gpu>>
ReadEvent(t) ==
  LET g == get[t]
      full == Len(g.items) + 1 = g.room
  IN /\ Getting(t) /\ g.dev # 0 /\ IsNotification(g.file)
     /\ open[g.file].unread > 0
     /\ open' = [open EXCEPT ![g.file].unread = @ - 1]
     /\ taken' = taken + 1
     /\ get' = [get EXCEPT ![t].items = Append(@, Item(g)),
                           ![t].dev = IF full THEN 0 ELSE @,
                           ![t].left = IF full THEN {} ELSE @]
     /\ UNCHANGED misused
EndOfFile(t) ==
  /\ Getting(t) /\ get[t].dev # 0 /\ IsNotification(get[t].file)
  /\ open[get[t].file].unread = 0
  /\ get' = [get EXCEPT ![t].dev = 0]
  /\ UNCHANGED <<open, taken, misused>>
ReadClosed(t) ==
  /\ Getting(t) /\ get[t].dev # 0 /\ ~IsNotification(get[t].file)
  /\ misused' = TRUE
  /\ get' = [get EXCEPT ![t] = [Idle EXCEPT !.items = get[t].items]]
  /\ UNCHANGED <<open, taken>>

\* After the first pass the call waits, unless the buffer is full, or there is
\* no file at all and the errno of some earlier call says so.  poll ends with
\* events, at its time-out, or interrupted; the files that had events then are
\* read in the second pass.
PassEnded(t) == Getting(t) /\ get[t].dev = 0 /\ get[t].left = {}
PollEnds(t) ==
  LET g == get[t]
      ready == {i \in DOMAIN g.fds : open[g.fds[i]].unread > 0}
  IN /\ PassEnded(t) /\ ~g.polled /\ Len(g.items) < g.room /\ ready # {}
     /\ get' = [get EXCEPT ![t].polled = TRUE, ![t].left = ready]
     /\ UNCHANGED <<open, taken, misused>>

\* The buffer keeps what was written to it, whatever is returned.
GetReturns(t) ==
  /\ PassEnded(t)
  /\ get' = [get EXCEPT ![t] = [Idle EXCEPT !.items = get[t].items]]
  /\ UNCHANGED <<open, taken, misused>>
=============================================================================
