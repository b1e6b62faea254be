------------------------------ MODULE Session ------------------------------
(***************************************************************************)
(* The life of a session: main() and its event loop, the RDP thread that   *)
(* connects, waits for events and tears down (mini-qf-client.cc), and the  *)
(* cliprdr plugin that FreeRDP loads, connects, disconnects and terminates *)
(* on that thread (cliprdr_main.c).  The view keeps pointers to both       *)
(* (rdp-view-item.h), and nothing clears them.                             *)
(*                                                                         *)
(* FreeRDP itself is external: the order in which freerdp_connect calls    *)
(* PostConnect and connects the channel is left open, and so is whether    *)
(* the plugin is terminated by freerdp_disconnect or by                    *)
(* freerdp_context_free.                                                   *)
(***************************************************************************)
EXTENDS Integers

CONSTANT
    Failures    \* the calls that may fail

Calls == {"load", "freerdp_new", "freerdp_context_new", "calloc_plugin",
          "calloc_context", "init", "transport", "gdi_init", "open",
          "create_handler", "clipboard", "handles", "wait", "post_quit",
          "wait_thread", "close"}

ASSUME SessionAssumption == Failures \subseteq Calls

VARIABLES
    mainPc,         \* main()
    guiUse,         \* what an event handler has checked and is about to use
    viewLive,       \* the RdpViewItem exists
    viewContext,    \* its m_rdpContext: null, garbage, context
    stopped,        \* g_stopped
    rdpPc,          \* rdp_loop_thread
    instance,       \* g_instance and ...
    context,        \* ... its context: none, live, freed
    plugin,         \* the cliprdrPlugin with its CliprdrClientContext
    registered,     \* pVirtualChannelInitEx has accepted it
    frees,          \* how often it has been freed
    opened,         \* its OpenHandle: no, open, and unclosed if closing failed
    connected,      \* its CONNECTED event has come, and no DISCONNECTED yet
    channel,        \* the channel thread: none, running, ended, or given up:
                    \* orphan, left, strayed (see QuitHandler)
    hooked,         \* the callbacks of mini-qf-client.cc are in the context
    published,      \* cliprdr_client_context_
    greeting,       \* MonitorReady: no, sent, queued, seen
    pending,        \* the server has sent something
    peerGone,       \* the server has ended the session
    channelError,   \* setChannelError
    crashed

main == <<mainPc, viewLive, stopped>>
view == <<guiUse, viewContext>>
library == <<instance, context>>
channelVars == <<plugin, registered, frees, opened, connected, channel, hooked>>
events == <<greeting, pending, peerGone, channelError>>
vars == <<main, view, rdpPc, library, channelVars, published, events, crashed>>

\* m_rdpContext has no initialiser.
Init ==
    /\ mainPc = "loading" /\ guiUse = "none"
    /\ viewLive = FALSE /\ viewContext \in {"null", "garbage"}
    /\ stopped = FALSE
    /\ rdpPc = "none" /\ instance = "none" /\ context = "none"
    /\ plugin = "none" /\ registered = FALSE /\ frees = 0
    /\ opened = "no" /\ connected = FALSE
    /\ channel = "none" /\ hooked = FALSE
    /\ published = FALSE /\ greeting = "no"
    /\ pending = FALSE /\ peerGone = FALSE /\ channelError = FALSE
    /\ crashed = FALSE

May(call) == call \in Failures

-----------------------------------------------------------------------------
(* main() and the event loop.                                               *)

\* The scene cannot be loaded, or has no view: stop() finds no thread.
LoadFails ==
    /\ mainPc = "loading"
    /\ May("load")
    /\ stopped' = TRUE
    /\ mainPc' = "returned"
    /\ UNCHANGED <<viewLive, view, rdpPc, library, channelVars, published,
                   events, crashed>>

Start ==
    /\ mainPc = "loading"
    /\ viewLive' = TRUE
    /\ mainPc' = "running" /\ rdpPc' = "started"
    /\ UNCHANGED <<stopped, view, library, channelVars, published, events,
                   crashed>>

\* app.exec() returns, and stop() sets the flag ...
Quit ==
    /\ mainPc = "running" /\ guiUse = "none"
    /\ stopped' = TRUE
    /\ mainPc' = "stopping"
    /\ UNCHANGED <<viewLive, view, rdpPc, library, channelVars, published,
                   events, crashed>>

\* ... and waits for the thread; then the engine destroys the view.
Join ==
    /\ mainPc = "stopping"
    /\ rdpPc = "done"
    /\ mainPc' = "returned"
    /\ viewLive' = FALSE
    /\ UNCHANGED <<stopped, view, rdpPc, library, channelVars, published,
                   events, crashed>>

\* mouseEventScaleSend and keyboardUnicodeEventSend go on if m_rdpContext is
\* not null, dataChangedCallback if cliprdr_client_context_ is not ...
CheckContext ==
    /\ mainPc = "running" /\ guiUse = "none"
    /\ \/ viewContext # "null" /\ guiUse' = "input"
       \/ published /\ guiUse' = "copy"
    /\ UNCHANGED <<main, viewContext, rdpPc, library, channelVars, published,
                   events, crashed>>

UsesNothing ==
    \/ guiUse = "input" /\ ~(viewContext = "context" /\ context = "live")
    \/ guiUse = "copy" /\ plugin # "live"

\* ... and then use it.
UseContext ==
    /\ guiUse # "none"
    /\ guiUse' = "none"
    /\ crashed' \in (IF UsesNothing THEN BOOLEAN ELSE {FALSE})
    /\ UNCHANGED <<main, viewContext, rdpPc, library, channelVars, published,
                   events>>

-----------------------------------------------------------------------------
(* The RDP thread, up to the connection (rdp_loop_thread).                  *)

New ==
    /\ rdpPc = "started"
    /\ \/ May("freerdp_new") /\ rdpPc' = "done" /\ UNCHANGED instance
       \/ rdpPc' = "new" /\ instance' = "live"
    /\ UNCHANGED <<main, view, context, channelVars, published, events, crashed>>

NewContext ==
    /\ rdpPc = "new"
    /\ \/ May("freerdp_context_new") /\ rdpPc' = "free" /\ UNCHANGED context
       \/ rdpPc' = "preConnect" /\ context' = "live"
    /\ UNCHANGED <<main, view, instance, channelVars, published, events, crashed>>

\* Mutant: the plugin is not freed when it cannot be registered.
LoadChannelsLeaks ==
    /\ rdpPc = "preConnect"
    /\ \/ /\ May("calloc_plugin") \/ May("calloc_context") \/ May("init")
          /\ plugin' = "live"
          /\ rdpPc' = "free"
          /\ UNCHANGED <<registered, frees>>
       \/ /\ plugin' = "live" /\ registered' = TRUE
          /\ rdpPc' = "connecting"
          /\ UNCHANGED frees
    /\ UNCHANGED <<main, view, library, opened, connected, channel, hooked,
                   published, events, crashed>>

\* my_pre_connect, and my_load_channels through VirtualChannelEntryEx, which
\* frees what it has allocated when a later call fails.
LoadChannels ==
    /\ rdpPc = "preConnect"
    /\ \/ /\ May("calloc_plugin")
          /\ rdpPc' = "free"
          /\ UNCHANGED <<plugin, registered, frees>>
       \/ /\ May("calloc_context") \/ May("init")
          /\ plugin' = "freed" /\ frees' = frees + 1
          /\ rdpPc' = "free"
          /\ UNCHANGED registered
       \/ /\ plugin' = "live" /\ registered' = TRUE
          /\ rdpPc' = "connecting"
          /\ UNCHANGED frees
    /\ UNCHANGED <<main, view, library, opened, connected, channel, hooked,
                   published, events, crashed>>

ConnectFails ==
    /\ rdpPc = "connecting"
    /\ May("transport")
    /\ rdpPc' = "free"
    /\ UNCHANGED <<main, view, library, channelVars, published, events, crashed>>

\* Mutant: the view is not given the context.
PostConnectBlind ==
    /\ rdpPc = "connecting" /\ viewContext # "context"
    /\ \/ May("gdi_init") /\ rdpPc' = "free" /\ UNCHANGED viewContext
       \/ rdpPc' = (IF connected THEN "loop" ELSE "connecting")
          /\ UNCHANGED viewContext
    /\ UNCHANGED <<main, guiUse, library, channelVars, published, events,
                   crashed>>

\* my_post_connect
PostConnect ==
    /\ rdpPc = "connecting" /\ viewContext # "context"
    /\ \/ May("gdi_init") /\ rdpPc' = "free" /\ UNCHANGED viewContext
       \/ viewContext' = "context"
          /\ rdpPc' = (IF connected THEN "loop" ELSE "connecting")
    /\ UNCHANGED <<main, guiUse, library, channelVars, published, events,
                   crashed>>

\* cliprdr_virtual_channel_event_connected, then qf_channel_connected_callback.
\* qt_clipboard_channel_init hooks nothing when an allocation fails.
ChannelConnected ==
    /\ rdpPc = "connecting" /\ ~connected
    /\ connected' = TRUE
    /\ rdpPc' = IF viewContext = "context" THEN "loop" ELSE "connecting"
    /\ \/ /\ May("open")
          /\ channelError' = TRUE
          /\ UNCHANGED <<opened, channel>>
       \/ /\ May("create_handler")
          /\ opened' = "open"
          /\ channelError' = TRUE
          /\ UNCHANGED channel
       \/ /\ opened' = "open" /\ channel' = "running"
          /\ UNCHANGED channelError
    /\ hooked' \in (IF May("clipboard") THEN BOOLEAN ELSE {TRUE})
    /\ UNCHANGED <<main, view, library, plugin, registered, frees, published,
                   greeting, pending, peerGone, crashed>>

-----------------------------------------------------------------------------
(* The event loop of the RDP thread.                                        *)

\* Mutant: the flag is not looked at.
LoopForEver ==
    /\ rdpPc = "loop"
    /\ \/ peerGone /\ rdpPc' = "disconnect"
       \/ May("handles") /\ rdpPc' = "disconnect"
       \/ ~peerGone /\ rdpPc' = "waiting"
    /\ UNCHANGED <<main, view, library, channelVars, published, events, crashed>>

\* The test of the while, and freerdp_get_event_handles.
LoopTest ==
    /\ rdpPc = "loop"
    /\ \/ (peerGone \/ stopped) /\ rdpPc' = "disconnect"
       \/ ~peerGone /\ ~stopped /\ May("handles") /\ rdpPc' = "disconnect"
       \/ ~peerGone /\ ~stopped /\ rdpPc' = "waiting"
    /\ UNCHANGED <<main, view, library, channelVars, published, events, crashed>>

\* WaitForMultipleObjects: without a limit, and not on g_stopped.
Woken == pending \/ peerGone \/ channelError

Wake ==
    /\ rdpPc = "waiting"
    /\ \/ Woken /\ rdpPc' = "checking"
       \/ May("wait") /\ rdpPc' = "disconnect"
    /\ UNCHANGED <<main, view, library, channelVars, published, events, crashed>>

\* Mutant: a channel's error does not end the loop.
CheckTransportOnly ==
    /\ rdpPc = "checking"
    /\ rdpPc' = IF peerGone THEN "disconnect" ELSE "loop"
    /\ pending' = FALSE
    /\ greeting' = IF greeting # "sent" THEN greeting
                   ELSE IF channel = "none" THEN "seen" ELSE "queued"
    /\ UNCHANGED <<main, view, library, channelVars, published, peerGone,
                   channelError, crashed>>

\* freerdp_check_event_handles: it fails when the server is gone or a channel
\* has reported an error; channel_client_post_message drops what comes for a
\* handler that does not exist.
CheckHandles ==
    /\ rdpPc = "checking"
    /\ rdpPc' = IF peerGone \/ channelError THEN "disconnect" ELSE "loop"
    /\ pending' = FALSE
    /\ greeting' = IF greeting # "sent" THEN greeting
                   ELSE IF channel = "none" THEN "seen" ELSE "queued"
    /\ UNCHANGED <<main, view, library, channelVars, published, peerGone,
                   channelError, crashed>>

-----------------------------------------------------------------------------
(* Tearing down.                                                            *)

\* channel_client_quit_handler, whose result is ignored: the thread is told to
\* quit and waited for, which it comes to after what is queued.  If the message
\* cannot be posted, the handler is freed under it; if the wait fails, it is left
\* to itself.
QuitHandler ==
    \/ channel \in {"none", "ended"} /\ UNCHANGED channel
    \/ channel = "running" /\ greeting # "queued" /\ channel' = "ended"
    \/ channel = "running" /\ May("post_quit") /\ channel' = "orphan"
    \/ channel = "running" /\ May("wait_thread") /\ channel' = "left"

\* OpenHandle stays as it is when the channel cannot be closed.
CloseChannel ==
    \/ /\ opened' = "no"
       /\ UNCHANGED channelError
    \/ /\ opened = "open" /\ May("close")
       /\ opened' = "unclosed"
       /\ channelError' = TRUE

\* Mutant: the channel thread is left running.
ChannelDisconnectedUnjoined ==
    /\ rdpPc \in {"disconnect", "free"} /\ connected
    /\ CloseChannel
    /\ connected' = FALSE
    /\ UNCHANGED <<main, view, rdpPc, library, plugin, registered, frees, channel,
                   hooked, published, greeting, pending, peerGone, crashed>>

\* cliprdr_virtual_channel_event_disconnected
ChannelDisconnected ==
    /\ rdpPc \in {"disconnect", "free"} /\ connected
    /\ QuitHandler
    /\ CloseChannel
    /\ connected' = FALSE
    /\ UNCHANGED <<main, view, rdpPc, library, plugin, registered, frees, hooked,
                   published, greeting, pending, peerGone, crashed>>

\* Mutant: the plugin may be terminated more than once.
ChannelTerminatedAgain ==
    /\ rdpPc \in {"disconnect", "free"} /\ ~connected /\ registered
    /\ plugin' = "freed" /\ frees' = frees + 1
    /\ UNCHANGED <<main, view, rdpPc, library, registered, opened, connected,
                   channel, hooked, published, events, crashed>>

\* cliprdr_virtual_channel_event_terminated
ChannelTerminated ==
    /\ rdpPc \in {"disconnect", "free"} /\ ~connected
    /\ registered /\ plugin = "live"
    /\ plugin' = "freed" /\ frees' = frees + 1
    /\ UNCHANGED <<main, view, rdpPc, library, registered, opened, connected,
                   channel, hooked, published, events, crashed>>

\* freerdp_disconnect returns.
Disconnected ==
    /\ rdpPc = "disconnect" /\ ~connected
    /\ rdpPc' = "free"
    /\ UNCHANGED <<main, view, library, channelVars, published, events, crashed>>

\* freerdp_context_free, once every plugin is terminated, and freerdp_free.
Free ==
    /\ rdpPc = "free" /\ ~connected
    /\ ~(registered /\ plugin = "live")
    /\ context' = IF context = "live" THEN "freed" ELSE context
    /\ instance' = "freed"
    /\ rdpPc' = "done"
    /\ UNCHANGED <<main, view, channelVars, published, events, crashed>>

-----------------------------------------------------------------------------
(* The server, and the channel thread.                                      *)

Connection == rdpPc \in {"connecting", "loop", "waiting", "checking"}
                 /\ viewContext = "context" /\ ~peerGone

ServerSends ==
    /\ Connection
    /\ pending' = TRUE
    /\ greeting' \in {greeting} \cup IF greeting = "no" THEN {"sent"} ELSE {}
    /\ UNCHANGED <<main, view, rdpPc, library, channelVars, published, peerGone,
                   channelError, crashed>>

ServerGoes ==
    /\ Connection
    /\ peerGone' = TRUE
    /\ UNCHANGED <<main, view, rdpPc, library, channelVars, published, greeting,
                   pending, channelError, crashed>>

\* cliprdr_process_monitor_ready: without the callback nothing is published.
ChannelMonitorReady ==
    /\ channel \in {"running", "orphan", "left"} /\ plugin = "live"
    /\ greeting = "queued"
    /\ greeting' = "seen"
    /\ published' = (published \/ hooked)
    /\ UNCHANGED <<main, view, rdpPc, library, channelVars, pending, peerGone,
                   channelError, crashed>>

\* Something has come for the channel thread to handle.
Served == greeting \in {"queued", "seen"}

\* A handler fails: the channel thread reports it and ends (ChannelHandler).
ChannelFails ==
    /\ channel \in {"running", "left"} /\ plugin = "live" /\ Served
    /\ channel' = "ended"
    /\ channelError' = TRUE
    /\ UNCHANGED <<main, view, rdpPc, library, plugin, registered, frees, opened,
                   connected, hooked, published, greeting, pending, peerGone,
                   crashed>>

\* A thread that nobody waits for comes to the message to quit ...
ChannelQuits ==
    /\ channel = "left" /\ greeting # "queued"
    /\ channel' = "ended"
    /\ UNCHANGED <<main, view, rdpPc, library, plugin, registered, frees, opened,
                   connected, hooked, published, events, crashed>>

\* ... or handles a PDU when its plugin is gone.  One whose handler was freed
\* uses that: anything may follow.
ChannelStrays ==
    /\ \/ channel = "orphan"
       \/ channel = "left" /\ plugin # "live" /\ Served
    /\ channel' = "strayed"
    /\ crashed' \in BOOLEAN
    /\ UNCHANGED <<main, view, rdpPc, library, plugin, registered, frees, opened,
                   connected, hooked, published, events>>

-----------------------------------------------------------------------------
Gui == UseContext \/ Join

Rdp ==
    \/ New \/ NewContext \/ LoadChannels \/ ConnectFails \/ PostConnect
    \/ ChannelConnected \/ LoopTest \/ Wake \/ CheckHandles
    \/ ChannelDisconnected \/ ChannelTerminated \/ Disconnected \/ Free

Channel ==
    \/ ChannelMonitorReady \/ ChannelFails \/ ChannelQuits \/ ChannelStrays

Next ==
    /\ ~crashed
    /\ \/ LoadFails \/ Start \/ Quit \/ CheckContext \/ Gui
       \/ Rdp \/ Channel \/ ServerSends \/ ServerGoes

Spec == Init /\ [][Next]_vars

\* The RDP thread waits, for events or for the channel thread; that a wait fails
\* is possible, but nothing to rely on.
Waits ==
    \/ rdpPc = "waiting" /\ ~Woken
    \/ rdpPc \in {"disconnect", "free"} /\ channel = "running" /\ greeting = "queued"

\* The threads run, and freerdp_connect returns; nothing is assumed about the
\* user, or about the server sending anything.
FairSpec ==
    /\ Spec
    /\ WF_vars(~crashed /\ ~Waits /\ Rdp)
    /\ WF_vars(~crashed /\ ChannelMonitorReady)
    /\ WF_vars(~crashed /\ Gui)

-----------------------------------------------------------------------------
\* The types of the variables.
TypeOK ==
    /\ mainPc \in {"loading", "running", "stopping", "returned"}
    /\ guiUse \in {"none", "input", "copy"}
    /\ viewLive \in BOOLEAN /\ viewContext \in {"null", "garbage", "context"}
    /\ stopped \in BOOLEAN
    /\ rdpPc \in {"none", "started", "new", "preConnect", "connecting", "loop",
                  "waiting", "checking", "disconnect", "free", "done"}
    /\ instance \in {"none", "live", "freed"}
    /\ context \in {"none", "live", "freed"}
    /\ plugin \in {"none", "live", "freed"}
    /\ registered \in BOOLEAN /\ frees \in {0, 1}
    /\ opened \in {"no", "open", "unclosed"} /\ connected \in BOOLEAN
    /\ channel \in {"none", "running", "ended", "orphan", "left", "strayed"}
    /\ hooked \in BOOLEAN /\ published \in BOOLEAN
    /\ greeting \in {"no", "sent", "queued", "seen"}
    /\ pending \in BOOLEAN /\ peerGone \in BOOLEAN /\ channelError \in BOOLEAN
    /\ crashed \in BOOLEAN

Established == {"loop", "waiting", "checking"}

\* While the session is up, and from the moment the user quits, input and local
\* copies use nothing that is not there: a pointer of the view that is
\* uninitialised or dangling is used before the connection or after the session
\* has ended by itself only (m_rdpContext, cliprdr_client_context_, stop()).
UsesWhatIsThere == UsesNothing => rdpPc \notin Established /\ ~stopped

\* The channel thread runs only while its plugin and the context exist, unless
\* it was given up: the message to quit could not be posted, or the wait for it
\* failed (channel_client_quit_handler).  The RDP thread runs only while the view
\* it posts frames to exists (the order of the events, of context_free and of the
\* join in stop()).
OwnersOutliveThreads ==
    /\ channel = "running" => plugin = "live" /\ context = "live"
    /\ rdpPc \notin {"none", "done"} => viewLive

\* Whichever call failed on the way, in the end the instance, its context and
\* the plugin, if they were made, have been freed, each once, and the channel is
\* closed, if it could be (VirtualChannelEntryEx,
\* cliprdr_virtual_channel_event_disconnected and _terminated, fail:).
ReleasedOnce ==
    rdpPc = "done" =>
        /\ instance \in {"none", "freed"} /\ context \in {"none", "freed"}
        /\ plugin \in {"none", "freed"}
        /\ frees = (IF plugin = "freed" THEN 1 ELSE 0)
        /\ opened # "open"

\* Once the user has quit, stop() returns, unless the RDP thread waits for ever
\* for a server that sends nothing more, or a channel thread that was given up
\* brings the process down: nothing else, no other failing call and no state of
\* the connection, keeps it (g_stopped, join).
OnlySilenceBlocksStop ==
    mainPc = "stopping" ~>
        \/ mainPc = "returned"
        \/ [](rdpPc = "waiting" /\ ~Woken)
        \/ crashed /\ channel = "strayed"

\* A session whose server goes, or whose channel reports an error, is torn down
\* by itself (freerdp_shall_disconnect_context, setChannelError).
LostSessionEnds == peerGone \/ channelError ~> rdpPc = "done" \/ crashed
=============================================================================
