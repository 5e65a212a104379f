----------------------------- MODULE MeetPlugin -----------------------------
(***************************************************************************)
(* The server side of the plugin as a whole: settings that change and      *)
(* processes that end (Configuration), users who connect and disconnect    *)
(* (ConnectFlow) and who start meetings (MeetingFlow), all at once.        *)
(***************************************************************************)
EXTENDS MeetingFlow

VARIABLE
    severed     \* history: how each user's last confirmed disconnect found things

vars == <<confVars, connectVars, meetingVars, severed>>

\* A callback is under way that may store a token for the user.
Returning(u) ==
    \E c \in Callbacks :
        callback[c].pc # "idle" /\ google[callback[c].grant].owner = u

\* A request holds a token of the user's that it may yet save.
Refreshing(u) ==
    \E r \in Starts : start[r].user = u /\ start[r].pc \in {"refresh", "save"}

\* A disconnect counts from its confirmation until a callback of the user's.
Severed(u) ==
    CASE Returning(u) -> "no"
      [] ~ Returning(u) /\ Refreshing(u) -> "busy"
      [] OTHER -> "quiet"

Init ==
    /\ ConfInit
    /\ ConnectInit
    /\ MeetingInit
    /\ severed = [u \in Users |-> "no"]

Next ==
    \/ ConfStep /\ UNCHANGED <<connectVars, meetingVars, severed>>
    \/ /\ ConnectStep
       /\ severed' = [u \in Users |-> IF Returning(u)' THEN "no" ELSE severed[u]]
       /\ UNCHANGED <<confVars, meetingVars>>
    \/ /\ \E d \in Disconnects :
            \/ \E u \in Users : DisconnectCall(d, u) /\ UNCHANGED severed
            \/ /\ DisconnectDelete(d)
               /\ severed' = [severed EXCEPT ![disconnect[d].user] =
                                Severed(disconnect[d].user)]
            \/ DisconnectDeleteFails(d) /\ UNCHANGED severed
       /\ UNCHANGED <<confVars, meetingVars>>
    \/ MeetingStep /\ UNCHANGED <<confVars, severed>>
    \/ Stop /\ ConnectKill /\ MeetingKill /\ UNCHANGED severed

Spec == Init /\ [][Next]_vars

\* The Go scheduler runs every goroutine, and every call a request makes
\* returns: those to Google time out after 30 seconds.
Fairness == \A r \in Starts : WF_vars(StartStep(r) /\ UNCHANGED <<confVars, severed>>)

FairSpec == Spec /\ Fairness

-----------------------------------------------------------------------------
(* Properties *)

TypeOK ==
    /\ ConfTypeOK
    /\ ConnectTypeOK
    /\ start \in [Starts -> StartRequest]
    /\ spaces \in Seq(Space)
    /\ \A r \in Starts : start[r].since <= Latest /\ start[r].link <= Len(spaces)
    /\ severed \in [Users -> {"no", "quiet", "busy"}]

\* Meetings are held on the Google account of the user who asked for them,
\* whatever connects, reconnects, refreshes and disconnects went on meanwhile.
MeetingOwnAccount ==
    \A i \in 1..Len(spaces) : spaces[i].account = spaces[i].user

\* After a disconnect that found no refresh and no callback of the user's
\* under way, the saved connection stays gone until the user connects again:
\* neither a request begun before nor one begun after brings it back.
QuietDisconnect ==
    \A u \in Users : severed[u] = "quiet" => tokens[u] = None

\* What GetOAuth2Token's comment takes for granted: a request comes to delete
\* a blob it cannot read only if the encryption key was changed at some time.
NoNeedlessPurge ==
    \A r \in Starts : start[r].pc \in {"check_purge", "use_purge"} =>
        \E v, w \in 1..Latest : /\ saves[v].key # saves[w].key
                                /\ saves[v].key # None /\ saves[w].key # None

\* A request goes on to a meeting in a public channel only if the settings did
\* not restrict it, either when it came or at some moment since.
RestrictionRespected ==
    \A r \in Starts :
        /\ start[r].pc \in {"use_open", "use_get", "use_purge", "refresh", "save",
                            "create", "drop_open", "drop", "post", "publish"}
        /\ start[r].chan \in PublicChannels
        => \E v \in start[r].since .. configuration : ~ Cfg(v).restrict

\* Requests one at a time, and no failure between a refresh and its save,
\* never leave a user with a refresh token that Google has replaced.
RefreshTokenKept ==
    \A u \in Users :
        tokens[u] # None =>
            \/ tokens[u].tok.rt = google[tokens[u].tok.grant].rt
            \/ \E r \in Starts : /\ start[r].pc = "save" /\ start[r].user = u
                                 /\ start[r].tok.grant = tokens[u].tok.grant

\* Every request to start a meeting is answered, whatever fails, unless the
\* process ends under it.
StartAnswered == \A r \in Starts : Begun(r) ~> ~ Begun(r)

-----------------------------------------------------------------------------
(* What the documentation and comments say, and the code does not do *)

\* "Your Google account has been disconnected" (command.go), and the command
\* removes the saved connection: it stays removed until the user connects.
DisconnectLasts ==
    \A u \in Users : severed[u] # "no" => tokens[u] = None

\* "If ... a token becomes unusable, the plugin asks the user to reconnect"
\* (README): a request whose refresh Google refuses for good, because access
\* was withdrawn or the refresh token replaced, is answered so.
UnusableAsksReconnect ==
    [][\A r \in Starts :
         /\ start[r].pc = "refresh"
         /\ \/ google[start[r].tok.grant].stage = "revoked"
            \/ google[start[r].tok.grant].rt # start[r].tok.rt
         /\ start'[r].pc = "idle"
         => start'[r].reply = "needs_reconnect"]_vars

\* "Token has old scopes - delete it" (meeting.go): the token deleted is the
\* one Google refused.
DropsRefusedToken ==
    [][\A r \in Starts :
         LET u == start[r].user
         IN  /\ start[r].pc = "drop" /\ start'[r].pc = "idle" /\ start[r].tok # None
             /\ tokens[u] # None /\ tokens'[u] = None
             => tokens[u].tok.grant = start[r].tok.grant]_vars

\* "Successfully connected to Google!", "Use /meet start" (api.go): a callback
\* stores a token that the store in force can read ...
StoredAsTold ==
    \A c \in Callbacks :
        LET u == callback[c].user
        IN  /\ callback[c].pc = "store" /\ callback'[c] # callback[c]
            /\ tokens'[u] # tokens[u]
            /\ OAuthStore # None
            => tokens'[u].key = OAuthStore

\* ... and no request that read something else before puts another account back
\* in its place, or deletes it as unreadable.
SparedByRequests ==
    \A r \in Starts :
        LET u == start[r].user
        IN  /\ start[r].pc \in {"save", "check_purge", "use_purge"}
            /\ start'[r] # start[r]
            /\ tokens[u] # None /\ tokens[u].key = OAuthStore
            => tokens'[u] # None /\ tokens'[u].tok.grant = tokens[u].tok.grant

=============================================================================
