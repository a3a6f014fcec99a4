-------------------------- MODULE PluginLifecycle --------------------------
(***************************************************************************)
(* The life of the plugin: the XPlugin* callbacks X-Plane makes on its     *)
(* main thread, and, for every panel, the two threads the plugin starts:   *)
(* FromPanelThread reads the USB device, ToPanelThread writes it.  The     *)
(* threads share with the callbacks one device handle, one manual-reset    *)
(* trigger and two bounded job queues per panel (ijq: panel to X-Plane,    *)
(* ojq: to the panel), and the flags gPluginEnabled and gThreadsRun.       *)
(*                                                                         *)
(* What a message says is left to the modules about the displays; here a   *)
(* message is known by where it comes from and whether it blanks a panel.  *)
(***************************************************************************)
EXTENDS Integers, Sequences

CONSTANTS
  Panels,         \* the panels the plugin supports (radio, multi, switch)
  OpenOrder,      \* the order XPluginStop and purge_queues go through them
  EnableOrder,    \* the order XPluginEnable and XPluginDisable do
  Plugged,        \* the sets of panels hid_open may succeed for
  Limit,          \* how many messages a job queue holds
  Reports,        \* per panel: what one USB report makes proc_msg post, in order
  HandlerPosts,   \* per panel: most messages one command makes its handlers post
  EventPosts,     \* per plane event and panel: the messages it posts
  SleepOutlasts   \* whether psleep(500) in XPluginStop outlasts thread steps

N == Len(OpenOrder)
Events == {"loaded", "crashed", "unloaded"}
Msg == {"blank", "sim", "crash", "knob"}
NoMsg == "none"

ASSUME OrderAssumption ==
  /\ OpenOrder \in Seq(Panels) /\ N \in Nat \ {0}
  /\ EnableOrder \in Seq(Panels) /\ Len(EnableOrder) = N
  /\ \A p \in Panels : \E k \in 1..N : OpenOrder[k] = p
  /\ \A p \in Panels : \E k \in 1..N : EnableOrder[k] = p

ASSUME PostsAssumption ==
  /\ Limit \in Nat \ {0}
  /\ Reports \in [Panels -> SUBSET Seq({"ijq", "ojq"})]
  /\ HandlerPosts \in [Panels -> Nat]
  /\ EventPosts \in [Events -> [Panels -> Nat]]
  /\ Plugged \subseteq SUBSET Panels
  /\ SleepOutlasts \in BOOLEAN

\* A queue has room for all the messages of one report: 10 at most, against 5000.
ASSUME RoomAssumption ==
  \A p \in Panels : \A r \in Reports[p] : Len(r) < Limit

VARIABLES
  plugin,      \* what X-Plane knows: unloaded, disabled, enabled or stopped
  op,          \* the callback the main thread is in, or "idle"
  at, i,       \* where in it, and at which panel of the order it follows
  posts,       \* per panel: messages the callback has still to post
  planeLoaded, \* gPlaneLoaded
  enabled,     \* gPluginEnabled
  threadsRun,  \* gThreadsRun
  handle,      \* per panel: whether gXpHidHandle is non-NULL
  device,      \* per panel: none (not opened), open or closed
  trig,        \* per panel: state of the trigger both threads wait on
  ojq, ijq,    \* per panel: the job queues
  tpc, hold,   \* ToPanelThread: where it is and the message it took
  doInit,      \* ToPanelThread::mDoInit
  fpc, outbox  \* FromPanelThread: where it is and what it has still to post

mainVars == <<plugin, op, at, i, posts, planeLoaded>>
flagVars == <<enabled, threadsRun>>
hidVars  == <<handle, device>>
queues   == <<ojq, ijq>>
toVars   == <<tpc, hold, doInit>>
fromVars == <<fpc, outbox>>
vars == <<mainVars, flagVars, hidVars, trig, queues, toVars, fromVars>>

----------------------------------------------------------------------------
(* The job queue of ptypes: post and posturgent wait while it is full.     *)
Post(q, m, p) == Len(q[p]) < Limit /\ q' = [q EXCEPT ![p] = Append(@, m)]
PostUrgent(q, m, p) == Len(q[p]) < Limit /\ q' = [q EXCEPT ![p] = <<m>> \o @]
Take(q, p) == q[p] # <<>> /\ q' = [q EXCEPT ![p] = Tail(@)]

(* Where the main thread goes next.                                        *)
Begin(o, a) == op' = o /\ at' = a /\ i' = 1
Goto(a)     == at' = a /\ UNCHANGED <<op, i>>
Return(s)   == plugin' = s /\ op' = "idle" /\ at' = "idle" /\ i' = 1
NextPanel(again, done) ==
  /\ IF i < N THEN at' = again /\ i' = i + 1 ELSE at' = done /\ i' = 1
  /\ UNCHANGED op

NoPosts == [p \in Panels |-> 0]

----------------------------------------------------------------------------
Init ==
  /\ plugin = "unloaded" /\ op = "idle" /\ at = "idle" /\ i = 1
  /\ posts = NoPosts /\ planeLoaded = FALSE
  /\ enabled = FALSE /\ threadsRun = FALSE
  /\ handle = [p \in Panels |-> FALSE]
  /\ device = [p \in Panels |-> "none"]
  /\ trig   = [p \in Panels |-> FALSE]
  /\ ojq = [p \in Panels |-> <<>>] /\ ijq = [p \in Panels |-> <<>>]
  /\ tpc = [p \in Panels |-> "none"] /\ fpc = [p \in Panels |-> "none"]
  /\ hold = [p \in Panels |-> NoMsg]
  /\ doInit = [p \in Panels |-> TRUE]
  /\ outbox = [p \in Panels |-> <<>>]

(* XPluginStart.  Nothing else runs before the threads are started, and a  *)
(* thread touches only the state of its own panel, so one step does it.    *)
Start ==
  /\ plugin = "unloaded"
  /\ \E found \in Plugged :
       /\ handle' = [p \in Panels |-> p \in found]
       /\ device' = [p \in Panels |-> IF p \in found THEN "open" ELSE "none"]
  /\ threadsRun' = TRUE
  /\ tpc' = [p \in Panels |-> "test"] /\ fpc' = [p \in Panels |-> "test"]
  /\ Return("disabled")
  /\ UNCHANGED <<posts, planeLoaded, enabled, trig, queues, hold, doInit, outbox>>

----------------------------------------------------------------------------
(* purge_queues: takes the messages of every queue, ojq then ijq of each   *)
(* panel, until getmessage times out on an empty queue.                    *)
PurgeTake ==
  /\ \/ at = "purgeOut" /\ Take(ojq, OpenOrder[i]) /\ UNCHANGED ijq
     \/ at = "purgeIn"  /\ Take(ijq, OpenOrder[i]) /\ UNCHANGED ojq
  /\ UNCHANGED <<mainVars, flagVars, hidVars, trig, toVars, fromVars>>

\* Fault: each queue is read once instead of until it is empty.
PurgeNextOnce ==
  /\ \/ at = "purgeOut" /\ Goto("purgeIn") /\ UNCHANGED plugin
     \/ /\ at = "purgeIn"
        /\ \/ /\ i < N \/ op = "enable"
              /\ NextPanel("purgeOut", "arm") /\ UNCHANGED plugin
           \/ /\ i = N /\ op = "disable" /\ Return("disabled")
           \/ /\ i = N /\ op = "stop" /\ Return("stopped")
  /\ UNCHANGED <<posts, planeLoaded, flagVars, hidVars, trig, queues, toVars, fromVars>>

PurgeNext ==
  /\ \/ /\ at = "purgeOut" /\ ojq[OpenOrder[i]] = <<>>
        /\ Goto("purgeIn") /\ UNCHANGED plugin
     \/ /\ at = "purgeIn" /\ ijq[OpenOrder[i]] = <<>>
        /\ \/ /\ i < N \/ op = "enable"
              /\ NextPanel("purgeOut", "arm") /\ UNCHANGED plugin
           \/ /\ i = N /\ op = "disable" /\ Return("disabled")
           \/ /\ i = N /\ op = "stop" /\ Return("stopped")
  /\ UNCHANGED <<posts, planeLoaded, flagVars, hidVars, trig, queues, toVars, fromVars>>

(* XPluginEnable: purge, post the trigger of every open panel, and set     *)
(* gPluginEnabled only if there is one.                                    *)
EnableBegin ==
  /\ plugin = "disabled" /\ op = "idle"
  /\ Begin("enable", "purgeOut")
  /\ UNCHANGED <<plugin, posts, planeLoaded, flagVars, hidVars, trig, queues, toVars, fromVars>>

\* Faults: the trigger is posted whether or not the panel is open; or never.
EnableArmAll ==
  /\ at = "arm"
  /\ trig' = [trig EXCEPT ![EnableOrder[i]] = TRUE]
  /\ NextPanel("arm", "flag")
  /\ UNCHANGED <<plugin, posts, planeLoaded, flagVars, hidVars, queues, toVars, fromVars>>

EnableArmNone ==
  /\ at = "arm"
  /\ NextPanel("arm", "flag")
  /\ UNCHANGED <<plugin, posts, planeLoaded, flagVars, hidVars, trig, queues, toVars, fromVars>>

EnableArm ==
  /\ at = "arm"
  /\ trig' = [trig EXCEPT ![EnableOrder[i]] = @ \/ handle[EnableOrder[i]]]
  /\ NextPanel("arm", "flag")
  /\ UNCHANGED <<plugin, posts, planeLoaded, flagVars, hidVars, queues, toVars, fromVars>>

EnableFlag ==
  /\ at = "flag"
  /\ enabled' = \E p \in Panels : handle[p]
  /\ Return("enabled")
  /\ UNCHANGED <<posts, planeLoaded, threadsRun, hidVars, trig, queues, toVars, fromVars>>

(* XPluginDisable: clear gPluginEnabled; per open panel post the trigger,  *)
(* put BLANK at the head of ojq and reset the trigger; then purge.         *)
\* Fault: gPluginEnabled is not cleared.
DisableBeginEnabled ==
  /\ plugin = "enabled" /\ op = "idle"
  /\ Begin("disable", "wake")
  /\ UNCHANGED <<plugin, posts, planeLoaded, flagVars, hidVars, trig, queues, toVars, fromVars>>

DisableBegin ==
  /\ plugin = "enabled" /\ op = "idle"
  /\ enabled' = FALSE
  /\ Begin("disable", "wake")
  /\ UNCHANGED <<plugin, posts, planeLoaded, threadsRun, hidVars, trig, queues, toVars, fromVars>>

DisableWake ==
  /\ at = "wake"
  /\ IF handle[EnableOrder[i]]
     THEN trig' = [trig EXCEPT ![EnableOrder[i]] = TRUE] /\ Goto("blank")
     ELSE NextPanel("wake", "purgeOut") /\ UNCHANGED trig
  /\ UNCHANGED <<plugin, posts, planeLoaded, flagVars, hidVars, queues, toVars, fromVars>>

DisableBlank ==
  /\ at = "blank"
  /\ PostUrgent(ojq, "blank", EnableOrder[i])
  /\ Goto("park")
  /\ UNCHANGED <<plugin, posts, planeLoaded, flagVars, hidVars, trig, ijq, toVars, fromVars>>

\* Faults: the trigger is left posted; or nothing is purged afterwards.
DisableParkAwake ==
  /\ at = "park"
  /\ NextPanel("wake", "purgeOut")
  /\ UNCHANGED <<plugin, posts, planeLoaded, flagVars, hidVars, trig, queues, toVars, fromVars>>

DisableParkNoPurge ==
  /\ at = "park"
  /\ trig' = [trig EXCEPT ![EnableOrder[i]] = FALSE]
  /\ IF i < N THEN NextPanel("wake", "purgeOut") /\ UNCHANGED plugin
     ELSE Return("disabled")
  /\ UNCHANGED <<posts, planeLoaded, flagVars, hidVars, queues, toVars, fromVars>>

DisablePark ==
  /\ at = "park"
  /\ trig' = [trig EXCEPT ![EnableOrder[i]] = FALSE]
  /\ NextPanel("wake", "purgeOut")
  /\ UNCHANGED <<plugin, posts, planeLoaded, flagVars, hidVars, queues, toVars, fromVars>>

----------------------------------------------------------------------------
(* XPluginStop: clear gPluginEnabled, per open panel put BLANK at the head *)
(* of ojq and post the trigger; clear gThreadsRun and sleep half a second; *)
(* close every open device; purge.                                         *)
StopBegin ==
  /\ plugin \in {"disabled", "enabled"} /\ op = "idle"
  /\ enabled' = FALSE
  /\ Begin("stop", "farewell")
  /\ UNCHANGED <<plugin, posts, planeLoaded, threadsRun, hidVars, trig, queues, toVars, fromVars>>

StopBlank ==
  /\ at = "farewell"
  /\ IF handle[OpenOrder[i]]
     THEN PostUrgent(ojq, "blank", OpenOrder[i]) /\ Goto("release")
     ELSE NextPanel("farewell", "halt") /\ UNCHANGED ojq
  /\ UNCHANGED <<plugin, posts, planeLoaded, flagVars, hidVars, trig, ijq, toVars, fromVars>>

\* Fault: the threads waiting on the trigger are not released.
StopReleaseNone ==
  /\ at = "release"
  /\ NextPanel("farewell", "halt")
  /\ UNCHANGED <<plugin, posts, planeLoaded, flagVars, hidVars, trig, queues, toVars, fromVars>>

StopRelease ==
  /\ at = "release"
  /\ trig' = [trig EXCEPT ![OpenOrder[i]] = TRUE]
  /\ NextPanel("farewell", "halt")
  /\ UNCHANGED <<plugin, posts, planeLoaded, flagVars, hidVars, queues, toVars, fromVars>>

\* Fault: no pause between clearing gThreadsRun and closing the devices.
StopHaltHasty ==
  /\ at = "halt"
  /\ threadsRun' = FALSE
  /\ Goto("close")
  /\ UNCHANGED <<plugin, posts, planeLoaded, enabled, hidVars, trig, queues, toVars, fromVars>>

StopHalt ==
  /\ at = "halt"
  /\ threadsRun' = FALSE
  /\ Goto("sleep")
  /\ UNCHANGED <<plugin, posts, planeLoaded, enabled, hidVars, trig, queues, toVars, fromVars>>

(* No thread can take a step but by new input from the device: what 500 ms *)
(* give the threads the time to reach, their own pauses being of 100 ms.   *)
Settled(p) ==
  /\ \/ tpc[p] \in {"none", "gone"}
     \/ tpc[p] = "wait" /\ ~trig[p]
     \/ tpc[p] = "get" /\ ojq[p] = <<>>
  /\ \/ fpc[p] \in {"none", "gone", "read"}
     \/ fpc[p] = "wait" /\ ~trig[p]
     \/ fpc[p] = "post" /\ outbox[p] # <<>>
        /\ Len(IF Head(outbox[p]) = "ijq" THEN ijq[p] ELSE ojq[p]) >= Limit

StopSleep ==
  /\ at = "sleep"
  /\ SleepOutlasts => \A p \in Panels : Settled(p)
  /\ Goto("close")
  /\ UNCHANGED <<plugin, posts, planeLoaded, flagVars, hidVars, trig, queues, toVars, fromVars>>

(* close_hid: a last blank report, hid_close, and only then the handle is  *)
(* set to NULL and the trigger reset.                                      *)
CloseDevice ==
  /\ at = "close"
  /\ LET p == OpenOrder[i] IN
     IF handle[p]
     THEN device' = [device EXCEPT ![p] = "closed"] /\ Goto("forget")
     ELSE NextPanel("close", "purgeOut") /\ UNCHANGED device
  /\ UNCHANGED <<plugin, posts, planeLoaded, flagVars, handle, trig, queues, toVars, fromVars>>

CloseForget ==
  /\ at = "forget"
  /\ handle' = [handle EXCEPT ![OpenOrder[i]] = FALSE]
  /\ Goto("reset")
  /\ UNCHANGED <<plugin, posts, planeLoaded, flagVars, device, trig, queues, toVars, fromVars>>

CloseReset ==
  /\ at = "reset"
  /\ trig' = [trig EXCEPT ![OpenOrder[i]] = FALSE]
  /\ NextPanel("close", "purgeOut")
  /\ UNCHANGED <<plugin, posts, planeLoaded, flagVars, hidVars, queues, toVars, fromVars>>

----------------------------------------------------------------------------
(* XPluginReceiveMessage.  X-Plane sends messages to enabled plugins only. *)
(* The posts of an event go to open panels; PLANE_LOADED is ignored while  *)
(* a plane is loaded.                                                      *)
PlaneEvent(e) ==
  /\ plugin = "enabled" /\ op = "idle"
  /\ e = "loaded" => ~planeLoaded
  /\ posts' = [p \in Panels |-> IF handle[p] THEN EventPosts[e][p] ELSE 0]
  /\ Begin(e, "post")
  /\ UNCHANGED <<plugin, planeLoaded, flagVars, hidVars, trig, queues, toVars, fromVars>>

(* A command runs, from the keyboard or another plugin: its handler posts  *)
(* while the plugin is enabled, whether or not the panel was opened.       *)
SimCommand(p) ==
  /\ plugin = "enabled" /\ op = "idle" /\ enabled
  /\ \E k \in 1..HandlerPosts[p] : posts' = [NoPosts EXCEPT ![p] = k]
  /\ Begin("command", "post")
  /\ UNCHANGED <<plugin, planeLoaded, flagVars, hidVars, trig, queues, toVars, fromVars>>

(* A flight loop callback takes one message of ijq and runs the command it *)
(* asks for, whose handlers post.  (The up to 100 messages of one callback *)
(* are as many steps.)                                                     *)
FlightLoop(p) ==
  /\ plugin = "enabled" /\ op = "idle" /\ enabled
  /\ Take(ijq, p)
  /\ \E k \in 0..HandlerPosts[p] : posts' = [NoPosts EXCEPT ![p] = k]
  /\ Begin("command", "post")
  /\ UNCHANGED <<plugin, planeLoaded, flagVars, hidVars, trig, ojq, toVars, fromVars>>

(* The panel a callback posts to next: events serve the panels in order.   *)
PostTarget(p) == \E k \in 1..N : /\ OpenOrder[k] = p /\ posts[p] > 0
                                 /\ \A j \in 1..(k-1) : posts[OpenOrder[j]] = 0

MainPost(p) ==
  /\ at = "post" /\ PostTarget(p)
  /\ Post(ojq, IF op = "crashed" THEN "crash" ELSE "sim", p)
  /\ posts' = [posts EXCEPT ![p] = @ - 1]
  /\ UNCHANGED <<plugin, op, at, i, planeLoaded, flagVars, hidVars, trig, ijq, toVars, fromVars>>

MainPosted ==
  /\ at = "post" /\ posts = NoPosts
  /\ planeLoaded' = IF op = "loaded" THEN TRUE
                    ELSE IF op = "unloaded" THEN FALSE ELSE planeLoaded
  /\ Return("enabled")
  /\ UNCHANGED <<posts, flagVars, hidVars, trig, queues, toVars, fromVars>>

----------------------------------------------------------------------------
(* ToPanelThread::execute.                                                 *)
ToGoto(p, a) == tpc' = [tpc EXCEPT ![p] = a]

ToTest(p) ==
  /\ tpc[p] = "test"
  /\ ToGoto(p, IF threadsRun THEN "wait" ELSE "gone")
  /\ UNCHANGED <<mainVars, flagVars, hidVars, trig, queues, hold, doInit, fromVars>>

ToWake(p) ==
  /\ tpc[p] = "wait" /\ trig[p]
  /\ ToGoto(p, "init")
  /\ UNCHANGED <<mainVars, flagVars, hidVars, trig, queues, hold, doInit, fromVars>>

ToInit(p) ==
  /\ tpc[p] = "init"
  /\ doInit' = [doInit EXCEPT ![p] = FALSE]
  /\ ToGoto(p, IF doInit[p] /\ handle[p] THEN "initWrite" ELSE "get")
  /\ UNCHANGED <<mainVars, flagVars, hidVars, trig, queues, hold, fromVars>>

ToInitWrite(p) ==
  /\ tpc[p] = "initWrite"
  /\ ToGoto(p, "get")
  /\ UNCHANGED <<mainVars, flagVars, hidVars, trig, queues, hold, doInit, fromVars>>

ToGet(p) ==
  /\ tpc[p] = "get"
  /\ Take(ojq, p)
  /\ hold' = [hold EXCEPT ![p] = Head(ojq[p])]
  /\ ToGoto(p, "check")
  /\ UNCHANGED <<mainVars, flagVars, hidVars, trig, ijq, doInit, fromVars>>

ToCheck(p) ==
  /\ tpc[p] = "check"
  /\ IF handle[p] THEN ToGoto(p, "write") /\ UNCHANGED hold
     ELSE ToGoto(p, "test") /\ hold' = [hold EXCEPT ![p] = NoMsg]
  /\ UNCHANGED <<mainVars, flagVars, hidVars, trig, queues, doInit, fromVars>>

\* proc_msg: a crash makes the multi panel blank itself anew.  Then delete msg.
ToWrite(p) ==
  /\ tpc[p] = "write"
  /\ doInit' = [doInit EXCEPT ![p] = @ \/ hold[p] = "crash"]
  /\ hold' = [hold EXCEPT ![p] = NoMsg]
  /\ ToGoto(p, "test")
  /\ UNCHANGED <<mainVars, flagVars, hidVars, trig, queues, fromVars>>

----------------------------------------------------------------------------
(* FromPanelThread::execute.                                               *)
FromGoto(p, a) == fpc' = [fpc EXCEPT ![p] = a]

FromTest(p) ==
  /\ fpc[p] = "test"
  /\ FromGoto(p, IF threadsRun THEN "wait" ELSE "gone")
  /\ UNCHANGED <<mainVars, flagVars, hidVars, trig, queues, toVars, outbox>>

FromWake(p) ==
  /\ fpc[p] = "wait" /\ trig[p]
  /\ FromGoto(p, "look")
  /\ UNCHANGED <<mainVars, flagVars, hidVars, trig, queues, toVars, outbox>>

FromLook(p) ==
  /\ fpc[p] = "look"
  /\ FromGoto(p, IF handle[p] THEN "gate" ELSE "nap")
  /\ UNCHANGED <<mainVars, flagVars, hidVars, trig, queues, toVars, outbox>>

FromGate(p) ==
  /\ fpc[p] = "gate"
  /\ FromGoto(p, IF enabled THEN "read" ELSE "poll")
  /\ UNCHANGED <<mainVars, flagVars, hidVars, trig, queues, toVars, outbox>>

(* psleep(100), or hid_read_timeout with 100 ms, whose data is dropped.    *)
FromPause(p) ==
  /\ fpc[p] \in {"nap", "poll"}
  /\ FromGoto(p, "test")
  /\ UNCHANGED <<mainVars, flagVars, hidVars, trig, queues, toVars, outbox>>

(* The blocking hid_read returns a report, or an error.                    *)
Input(p) ==
  /\ fpc[p] = "read"
  /\ \/ device[p] = "open" /\ FromGoto(p, "decide")
     \/ FromGoto(p, "test")
  /\ UNCHANGED <<mainVars, flagVars, hidVars, trig, queues, toVars, outbox>>

FromDecide(p) ==
  /\ fpc[p] = "decide"
  /\ \/ /\ enabled /\ FromGoto(p, "post")
        /\ \E r \in Reports[p] : outbox' = [outbox EXCEPT ![p] = r]
     \/ ~enabled /\ FromGoto(p, "test") /\ UNCHANGED outbox
  /\ UNCHANGED <<mainVars, flagVars, hidVars, trig, queues, toVars>>

\* Fault: the thread posts without waiting for room.
FromPostHasty(p) ==
  /\ fpc[p] = "post" /\ outbox[p] # <<>>
  /\ \/ Head(outbox[p]) = "ijq" /\ ijq' = [ijq EXCEPT ![p] = Append(@, "knob")] /\ UNCHANGED ojq
     \/ Head(outbox[p]) = "ojq" /\ ojq' = [ojq EXCEPT ![p] = Append(@, "knob")] /\ UNCHANGED ijq
  /\ outbox' = [outbox EXCEPT ![p] = Tail(@)]
  /\ UNCHANGED <<mainVars, flagVars, hidVars, trig, toVars, fpc>>

FromPost(p) ==
  /\ fpc[p] = "post" /\ outbox[p] # <<>>
  /\ \/ Head(outbox[p]) = "ijq" /\ Post(ijq, "knob", p) /\ UNCHANGED ojq
     \/ Head(outbox[p]) = "ojq" /\ Post(ojq, "knob", p) /\ UNCHANGED ijq
  /\ outbox' = [outbox EXCEPT ![p] = Tail(@)]
  /\ UNCHANGED <<mainVars, flagVars, hidVars, trig, toVars, fpc>>

FromPosted(p) ==
  /\ fpc[p] = "post" /\ outbox[p] = <<>>
  /\ FromGoto(p, "test")
  /\ UNCHANGED <<mainVars, flagVars, hidVars, trig, queues, toVars, outbox>>

----------------------------------------------------------------------------
\* The main thread goes on with the callback it is in.
MainStep ==
  \/ PurgeTake \/ PurgeNext \/ EnableArm \/ EnableFlag
  \/ DisableWake \/ DisableBlank \/ DisablePark
  \/ StopBlank \/ StopRelease \/ StopHalt \/ StopSleep
  \/ CloseDevice \/ CloseForget \/ CloseReset
  \/ (\E p \in Panels : MainPost(p)) \/ MainPosted

\* X-Plane makes the next callback.
Callback ==
  \/ Start \/ EnableBegin \/ DisableBegin \/ StopBegin
  \/ \E e \in Events : PlaneEvent(e)
  \/ \E p \in Panels : SimCommand(p) \/ FlightLoop(p)

ToStep(p) ==
  \/ ToTest(p) \/ ToWake(p) \/ ToInit(p) \/ ToInitWrite(p)
  \/ ToGet(p) \/ ToCheck(p) \/ ToWrite(p)

FromStep(p) ==
  \/ FromTest(p) \/ FromWake(p) \/ FromLook(p) \/ FromGate(p) \/ FromPause(p)
  \/ FromDecide(p) \/ FromPost(p) \/ FromPosted(p)

Next ==
  \/ MainStep \/ Callback
  \/ \E p \in Panels : ToStep(p) \/ FromStep(p) \/ Input(p)

Spec == Init /\ [][Next]_vars

(* The operating system runs every thread that can run, and a post that    *)
(* waits for room is not overtaken for ever by the posts of another        *)
(* thread.  X-Plane goes on with a callback once it is in it, and comes    *)
(* back to the flight loops again and again; it owes the plugin no other   *)
(* callback, nor the user any input.                                       *)
MainPosting == (\E p \in Panels : MainPost(p)) \/ DisableBlank \/ StopBlank

Fairness ==
  /\ WF_vars(MainStep) /\ SF_vars(MainPosting)
  /\ \A p \in Panels : WF_vars(ToStep(p)) /\ WF_vars(FromStep(p))
                       /\ SF_vars(FlightLoop(p))

FairSpec == Spec /\ Fairness
----------------------------------------------------------------------------
MainTypes ==
  /\ plugin \in {"unloaded", "disabled", "enabled", "stopped"}
  /\ op \in {"idle", "enable", "disable", "stop", "command"} \cup Events
  /\ at \in {"idle", "purgeOut", "purgeIn", "arm", "flag", "wake", "blank", "park",
             "farewell", "release", "halt", "sleep", "close", "forget", "reset", "post"}
  /\ i \in 1..N
  /\ posts \in [Panels -> Nat] /\ planeLoaded \in BOOLEAN

SharedTypes ==
  /\ enabled \in BOOLEAN /\ threadsRun \in BOOLEAN
  /\ handle \in [Panels -> BOOLEAN] /\ trig \in [Panels -> BOOLEAN]
  /\ device \in [Panels -> {"none", "open", "closed"}]

QueueOK(q) ==
  q \in [Panels -> Seq(Msg)] /\ \A p \in Panels : Len(q[p]) <= Limit

ThreadTypes ==
  /\ tpc \in [Panels -> {"none", "test", "wait", "init", "initWrite", "get",
                         "check", "write", "gone"}]
  /\ hold \in [Panels -> Msg \cup {NoMsg}] /\ doInit \in [Panels -> BOOLEAN]
  /\ fpc \in [Panels -> {"none", "test", "wait", "look", "gate", "nap", "poll",
                         "read", "decide", "post", "gone"}]
  /\ outbox \in [Panels -> Seq({"ijq", "ojq"})]

\* The values of every variable; no queue holds more than its limit.
TypeOK == MainTypes /\ SharedTypes /\ QueueOK(ojq) /\ QueueOK(ijq) /\ ThreadTypes

(* While gPluginEnabled is set, the threads of every open panel are awake: *)
(* no order of Enable, Disable and Stop leaves the plugin enabled with the *)
(* threads of a panel it opened parked on their trigger.                   *)
AwakeWhenEnabled == enabled => \A p \in Panels : handle[p] => trig[p]

(* Between callbacks of a disabled plugin every trigger is reset: after    *)
(* their current round the threads of every panel stop at the wait.        *)
ParkedWhenDisabled ==
  plugin = "disabled" /\ op = "idle" => \A p \in Panels : ~trig[p]

(* The threads of a panel that was not opened never get past their first   *)
(* wait, although all panels run the same code on the same flags.          *)
AbsentNeverServed ==
  \A p \in Panels : device[p] = "none" =>
     /\ ~trig[p] /\ ~handle[p]
     /\ tpc[p] \in {"none", "test", "wait", "gone"}
     /\ fpc[p] \in {"none", "test", "wait", "gone"}

(* A disabled plugin keeps nothing X-Plane said to a panel, and at most    *)
(* the rest of the one report FromPanelThread was in when it was disabled. *)
OneReportLeft(q1, q2, p) ==
  /\ \A k \in 1..Len(q1[p]) : q1[p][k] = "knob"
  /\ \E r \in Reports[p] : Len(q1[p]) + Len(q2[p]) <= Len(r)

LeftoverIsOneReport ==
  plugin = "disabled" /\ op = "idle" =>
    \A p \in Panels : ojq[p] \o ijq[p] = <<>> \/ OneReportLeft(ojq, ijq, p)

(* The main thread never waits for room in the queue of an open panel      *)
(* whose ToPanelThread cannot come and take a message out of it.           *)
MainPostsTo(p) ==
  \/ at = "post" /\ PostTarget(p)
  \/ at = "blank" /\ p = EnableOrder[i]
  \/ at = "farewell" /\ p = OpenOrder[i]

BlockedPostHasConsumer ==
  \A p \in Panels :
    MainPostsTo(p) /\ handle[p] /\ Len(ojq[p]) = Limit =>
      trig[p] /\ tpc[p] \notin {"none", "gone"}

(* Once hid_close was called on a device, neither thread starts to write,  *)
(* poll or read it, although the handle is set to NULL only afterwards.    *)
(* (A hid_read that blocked before stays in it.)  It rests on the 500 ms   *)
(* of XPluginStop, that is, on SleepOutlasts.                              *)
NoUseAfterClose ==
  \A p \in Panels : device[p] = "closed" =>
     /\ tpc[p] \notin {"init", "initWrite", "write"}
     /\ fpc[p] \notin {"look", "gate", "poll"}
     /\ handle[p] => tpc[p] # "check"

(* The step that sets gPluginEnabled finds in the queues no message that   *)
(* X-Plane's side posted in an earlier session.                            *)
CleanEnable ==
  [][~enabled /\ enabled' =>
       \A p \in Panels : \A k \in 1..Len(ojq[p]) : ojq[p][k] = "knob"]_vars

(* Every callback X-Plane makes returns: the main thread is never stuck in *)
(* a post, a purge or XPluginStop.  (Of a plugin all of whose panels are   *)
(* plugged in.)                                                            *)
MainReturns == op # "idle" ~> op = "idle"

(* A full queue of an open panel gets room again or the plugin is          *)
(* disabled: neither thread nor callback that waits to post waits forever. *)
QueuesRelieved ==
  \A p \in Panels :
    /\ (enabled /\ handle[p] /\ Len(ojq[p]) = Limit ~> Len(ojq[p]) < Limit \/ ~enabled)
    /\ (enabled /\ handle[p] /\ Len(ijq[p]) = Limit ~> Len(ijq[p]) < Limit \/ ~enabled)

(* After XPluginStop the threads of the panels that were open end, or stay *)
(* for good in the blocking call they were in: getmessage or hid_read.     *)
StopEndsThreads ==
  \A p \in Panels :
    plugin = "stopped" /\ device[p] = "closed"
      ~> tpc[p] \in {"gone", "get"} /\ fpc[p] \in {"gone", "read"}
============================================================================
