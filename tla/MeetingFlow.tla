---------------------------- MODULE MeetingFlow ----------------------------
(***************************************************************************)
(* Starting a meeting: handleCreateMeeting in server/api.go, the command   *)
(* /meet start in server/command/command.go, and what both call:           *)
(* IsUserConnected, StartMeeting in server/meeting.go, getValidToken,      *)
(* refreshToken and createMeeting in server/google.go, GetOAuth2Token and  *)
(* its deletes in server/store/kvstore/oauth.go.                           *)
(*                                                                         *)
(* One request passes the token store up to four times, each time through  *)
(* a handle read anew: to see whether the user is connected ("check"), to  *)
(* use the token ("use"), to save a refreshed one, and to drop one that    *)
(* Google found to lack a scope.  Between any two, everything may change.  *)
(***************************************************************************)
EXTENDS ConnectFlow

CONSTANTS
    Starts,         \* slots for requests to start a meeting
    Channels, PublicChannels,
    Origins,        \* where requests come from: "http", "slash"
    MaxSpaces       \* no request begins once there are so many spaces

ASSUME MeetingAssumption ==
    /\ PublicChannels \subseteq Channels
    /\ Origins \subseteq {"http", "slash"}
    /\ MaxSpaces \in Nat
    /\ None \notin Token

VARIABLES
    start,          \* the requests, each with its last reply
    spaces          \* the Meet spaces created, with what became of them

meetingVars == <<start, spaces>>

Space == [account: Users,       \* whose Google account holds the space
          user: Users,          \* who asked for it
          chan: Channels, posted: BOOLEAN, announced: BOOLEAN]

NotAnswered == "none"
Refusals == {"not_configured", "connection_check_failed", "not_connected",
             "permission_denied", "public_channel_restricted",
             "needs_reconnect", "meeting_failed"}

StartRequest ==
    [pc: {"idle", "check_open", "check_get", "check_purge", "admit", "use_open",
          "use_get", "use_purge", "refresh", "save", "create", "drop_open", "drop",
          "post", "publish"},
     user: Users \cup {None}, chan: Channels \cup {None}, origin: Origins \cup {None},
     key: Keys \cup {None}, tok: Token \cup {None}, since: Nat, link: Nat,
     reply: {NotAnswered, "ok"} \cup Refusals]

StartIdle ==
    [pc |-> "idle", user |-> None, chan |-> None, origin |-> None, key |-> None,
     tok |-> None, since |-> 0, link |-> 0, reply |-> NotAnswered]

Begun(r) == start[r].pc # "idle"

\* The request is answered; the slot remembers for whom and how.
Answer(r, reply) ==
    start' = [start EXCEPT ![r] = [StartIdle EXCEPT !.user = start[r].user,
                                                   !.reply = reply]]

Goto(r, pc) == start' = [start EXCEPT ![r].pc = pc]

-----------------------------------------------------------------------------
(* Before StartMeeting *)

\* IsPluginConfigured.  `since' is the configuration seen here.  The conjunct
\* on spaces is the bound, no guard of the code.
StartCall(r, u, ch, o) ==
    /\ phase = "active"
    /\ ~ Begun(r)
    /\ Len(spaces) < MaxSpaces
    /\ start' = [start EXCEPT ![r] =
                   IF Ready
                   THEN [StartIdle EXCEPT !.pc = "check_open", !.user = u, !.chan = ch,
                                          !.origin = o, !.since = configuration]
                   ELSE [StartIdle EXCEPT !.user = u, !.reply = "not_configured"]]
    /\ UNCHANGED <<connectVars, spaces>>

\* getOAuthKVStore, for the check and for the use.
StoreHandle(r, next, failure) ==
    /\ IF OAuthStore = None
       THEN Answer(r, failure)
       ELSE start' = [start EXCEPT ![r].pc = next, ![r].key = OAuthStore]
    /\ UNCHANGED <<connectVars, spaces>>

CheckOpen(r) ==
    start[r].pc = "check_open" /\ StoreHandle(r, "check_get", "connection_check_failed")

\* Mutant: the token's key is the same for all users.
StoredShared(r) ==
    IF \E u \in Users : tokens[u] # None
    THEN tokens[CHOOSE u \in Users : tokens[u] # None] ELSE None

\* GetOAuth2Token up to the decryption, which fails under any key but the
\* blob's own.
Stored(r) == tokens[start[r].user]
Readable(r) == Stored(r).key = start[r].key

\* Mutant: a Get that fails is taken for a blob that cannot be read.
CheckGetMistaken(r) ==
    /\ start[r].pc = "check_get"
    /\ \/ Stored(r) = None /\ Answer(r, "not_connected")
       \/ Stored(r) # None /\ Readable(r) /\ Goto(r, "admit")
       \/ Stored(r) # None /\ ~ Readable(r) /\ Goto(r, "check_purge")
       \/ "kv" \in Faults /\ Goto(r, "check_purge")
    /\ UNCHANGED <<connectVars, spaces>>

CheckGet(r) ==
    /\ start[r].pc = "check_get"
    /\ \/ Stored(r) = None /\ Answer(r, "not_connected")
       \/ Stored(r) # None /\ Readable(r) /\ Goto(r, "admit")
       \/ Stored(r) # None /\ ~ Readable(r) /\ Goto(r, "check_purge")
       \/ "kv" \in Faults /\ Answer(r, "connection_check_failed")
    /\ UNCHANGED <<connectVars, spaces>>

\* The rest of GetOAuth2Token: the blob goes, and there is no token.  An error
\* of the Delete is only logged.
Purge(r) ==
    /\ \/ tokens' = [tokens EXCEPT ![start[r].user] = None]
       \/ "kv" \in Faults /\ UNCHANGED tokens
    /\ UNCHANGED <<states, googleVars, requestVars, spent, spaces>>

CheckPurge(r) ==
    start[r].pc = "check_purge" /\ Purge(r) /\ Answer(r, "not_connected")

-----------------------------------------------------------------------------
(* StartMeeting *)

Restricted(r) == Cfg(configuration).restrict /\ start[r].chan \in PublicChannels

\* Mutant: a channel that GetChannel cannot find counts as private.
AdmitUnknown(r) ==
    /\ start[r].pc = "admit"
    /\ \/ Answer(r, "permission_denied")
       \/ ~ Restricted(r) /\ Goto(r, "use_open")
       \/ Restricted(r) /\ Answer(r, "public_channel_restricted")
       \/ "api" \in Faults /\ Cfg(configuration).restrict /\ Goto(r, "use_open")
    /\ UNCHANGED <<connectVars, spaces>>

\* The permission, which may be lacking, and the restriction.  The command
\* has no answer of its own for the lack of permission.
Admit(r) ==
    /\ start[r].pc = "admit"
    /\ \/ Answer(r, IF start[r].origin = "http" THEN "permission_denied"
                                                ELSE "meeting_failed")
       \/ ~ Restricted(r) /\ Goto(r, "use_open")
       \/ Restricted(r) /\ Answer(r, "public_channel_restricted")
       \/ "api" \in Faults /\ Cfg(configuration).restrict /\ Answer(r, "meeting_failed")
    /\ UNCHANGED <<connectVars, spaces>>

UseOpen(r) ==
    start[r].pc = "use_open" /\ StoreHandle(r, "use_get", "meeting_failed")

\* Mutant: the blob is handed on undecrypted.
UseGetSealed(r) ==
    /\ start[r].pc = "use_get"
    /\ \/ Stored(r) = None /\ Answer(r, "meeting_failed")
       \/ /\ Stored(r) # None /\ Readable(r)
          /\ start' = [start EXCEPT ![r].pc = "create", ![r].tok = Stored(r)]
    /\ UNCHANGED <<connectVars, spaces>>

\* A token read may be about to expire, or not.
UseGet(r) ==
    /\ start[r].pc = "use_get"
    /\ \/ Stored(r) = None /\ Answer(r, "meeting_failed")
       \/ /\ Stored(r) # None /\ Readable(r)
          /\ \E pc \in {"refresh", "create"} :
               start' = [start EXCEPT ![r].pc = pc, ![r].tok = Stored(r).tok]
       \/ Stored(r) # None /\ ~ Readable(r) /\ Goto(r, "use_purge")
       \/ "kv" \in Faults /\ Answer(r, "meeting_failed")
    /\ UNCHANGED <<connectVars, spaces>>

UsePurge(r) ==
    start[r].pc = "use_purge" /\ Purge(r) /\ Answer(r, "meeting_failed")

\* Google refreshes for the client the grant was given to, against the
\* grant's present refresh token.
Refreshable(t) ==
    /\ google[t.grant].stage = "token"
    /\ google[t.grant].creds = Cfg(configuration).creds
    /\ google[t.grant].rt = t.rt

\* Mutant: the old refresh token is kept, whatever Google's answer says.
RefreshKeepsOld(r) ==
    LET t == start[r].tok
    IN  /\ start[r].pc = "refresh"
        /\ \/ /\ Refreshable(t)
              /\ \E rt \in {t.rt, t.rt + 1} \cap 1..MaxRefresh :
                   google' = [google EXCEPT ![t.grant].rt = rt]
              /\ Goto(r, "save")
           \/ /\ ~ Refreshable(t) \/ "google" \in Faults
              /\ Answer(r, "meeting_failed")
              /\ UNCHANGED google
        /\ UNCHANGED <<storeVars, pages, requestVars, spent, spaces>>

\* Mutant: a refresh that fails is tried again, from the stored token on.
RefreshRetried(r) ==
    /\ start[r].pc = "refresh"
    /\ \/ Refreshable(start[r].tok) /\ Goto(r, "save")
       \/ (~ Refreshable(start[r].tok) \/ "google" \in Faults) /\ Goto(r, "use_open")
    /\ UNCHANGED <<connectVars, spaces>>

\* refreshToken: Google's answer may carry a new refresh token, which then
\* replaces the old one; any failure ends the request.
Refresh(r) ==
    LET t == start[r].tok
        Rotate(rt) == google' = [google EXCEPT ![t.grant].rt = rt]
        Rotations == {t.rt, t.rt + 1} \cap 1..MaxRefresh
    IN  /\ start[r].pc = "refresh"
        /\ \/ /\ Refreshable(t)
              /\ \E rt \in Rotations :
                   /\ Rotate(rt)
                   /\ start' = [start EXCEPT ![r].pc = "save", ![r].tok.rt = rt]
           \/ /\ Refreshable(t) /\ "lost" \in Faults
              /\ \E rt \in Rotations : Rotate(rt)
              /\ Answer(r, "meeting_failed")
           \/ /\ ~ Refreshable(t) \/ "google" \in Faults
              /\ Answer(r, "meeting_failed")
              /\ UNCHANGED google
        /\ UNCHANGED <<storeVars, pages, requestVars, spent, spaces>>

\* getValidToken stores what it refreshed, through the handle it opened
\* before; an error is only logged.
Save(r) ==
    /\ start[r].pc = "save"
    /\ \/ tokens' = [tokens EXCEPT ![start[r].user] =
                       [key |-> start[r].key, tok |-> start[r].tok]]
       \/ "kv" \in Faults /\ UNCHANGED tokens
    /\ Goto(r, "create")
    /\ UNCHANGED <<states, googleVars, requestVars, spent, spaces>>

\* Mutant: the token is stored once more when it has served.
CreateSaves(r) ==
    /\ start[r].pc = "create"
    /\ tokens' = [tokens EXCEPT ![start[r].user] =
                    [key |-> start[r].key, tok |-> start[r].tok]]
    /\ Answer(r, "ok")
    /\ UNCHANGED <<states, googleVars, requestVars, spent, spaces>>

\* createMeeting: an access token of a live grant that covers the scope.
Create(r) ==
    LET g == google[start[r].tok.grant]
        Live == g.stage = "token"
        NewSpace == Append(spaces, [account |-> g.owner, user |-> start[r].user,
                                    chan |-> start[r].chan,
                                    posted |-> FALSE, announced |-> FALSE])
    IN  /\ start[r].pc = "create"
        /\ \/ /\ Live /\ g.scope
              /\ spaces' = NewSpace
              /\ start' = [start EXCEPT ![r].pc = "post", ![r].link = Len(spaces) + 1]
           \/ /\ Live /\ g.scope /\ "lost" \in Faults
              /\ spaces' = NewSpace
              /\ Answer(r, "meeting_failed")
           \/ Live /\ ~ g.scope /\ Goto(r, "drop_open") /\ UNCHANGED spaces
           \/ /\ ~ Live \/ "google" \in Faults
              /\ Answer(r, "meeting_failed")
              /\ UNCHANGED spaces
        /\ UNCHANGED connectVars

\* After ErrInsufficientScopes: the user's token is deleted through a handle
\* opened for it, if there is one, and errors are only logged.
DropOpen(r) ==
    /\ start[r].pc = "drop_open"
    /\ IF OAuthStore = None THEN Answer(r, "needs_reconnect") ELSE Goto(r, "drop")
    /\ UNCHANGED <<connectVars, spaces>>

Drop(r) ==
    /\ start[r].pc = "drop"
    /\ \/ tokens' = [tokens EXCEPT ![start[r].user] = None]
       \/ "kv" \in Faults /\ UNCHANGED tokens
    /\ Answer(r, "needs_reconnect")
    /\ UNCHANGED <<states, googleVars, requestVars, spent, spaces>>

\* Mutant: a post that fails is only logged.
CreatePostLogged(r) ==
    /\ start[r].pc = "post"
    /\ \/ spaces' = [spaces EXCEPT ![start[r].link].posted = TRUE]
       \/ "api" \in Faults /\ UNCHANGED spaces
    /\ Goto(r, "publish")
    /\ UNCHANGED connectVars

CreatePost(r) ==
    /\ start[r].pc = "post"
    /\ \/ /\ spaces' = [spaces EXCEPT ![start[r].link].posted = TRUE]
          /\ Goto(r, "publish")
       \/ "api" \in Faults /\ Answer(r, "meeting_failed") /\ UNCHANGED spaces
    /\ UNCHANGED connectVars

PublishWebSocketEvent(r) ==
    /\ start[r].pc = "publish"
    /\ spaces' = [spaces EXCEPT ![start[r].link].announced = TRUE]
    /\ Answer(r, "ok")
    /\ UNCHANGED connectVars

-----------------------------------------------------------------------------
MeetingInit ==
    /\ start = [r \in Starts |-> StartIdle]
    /\ spaces = <<>>

StartStep(r) ==
    \/ CheckOpen(r) \/ CheckGet(r) \/ CheckPurge(r) \/ Admit(r)
    \/ UseOpen(r) \/ UseGet(r) \/ UsePurge(r)
    \/ Refresh(r) \/ Save(r) \/ Create(r) \/ DropOpen(r) \/ Drop(r)
    \/ CreatePost(r) \/ PublishWebSocketEvent(r)

MeetingStep ==
    \/ \E r \in Starts, u \in Users, ch \in Channels, o \in Origins : StartCall(r, u, ch, o)
    \/ \E r \in Starts : StartStep(r)

MeetingKill ==
    /\ start' = [r \in Starts |-> StartIdle]
    /\ UNCHANGED spaces
=============================================================================
