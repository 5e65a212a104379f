# Verification of the Google Meet plugin for Mattermost

TLA+ models of the plugin, in the server and in the browser, TLC runs that check
them on small instances, and TLAPS proofs of what matters most for every
instance. Paths and line numbers below are those of this repository.

## 1. The system: an inventory

| component | state it keeps | operations | talks to |
|---|---|---|---|
| configuration and activation (`server/configuration.go`, `server/plugin.go`) | `p.configuration`, `p.kvstore`, `p.client`, each with or without its own lock | `OnConfigurationChange`, `OnActivate`, `getOAuthKVStore` | server: settings, bot |
| OAuth connect and callback (`server/api.go`, `server/google.go`) | none between requests; a captured store handle inside one | `handleOAuthConnect`, `handleOAuthCallback`, `exchangeCodeForToken` | KV store, Google, the browser |
| token and state store (`server/store/kvstore`) | KV entries: a blob per user, a state with a ten-minute TTL | store, get, delete; get-and-delete of a state | KV store |
| disconnect (`server/auth.go`, `server/command`) | none | `DisconnectUser` | KV store |
| meeting creation (`server/meeting.go`, `server/google.go`, `server/api.go`) | none between requests; token and handle inside one | `handleCreateMeeting`, `/meet start`, `StartMeeting`, `getValidToken`, `refreshToken`, `createMeeting` | KV store, Google, posts, websocket events |
| configuration status (`server/api.go`) | none | `handleConfigStatus` (reads only) | webapp |
| webapp (`webapp/src`) | what the status request said, once per load; what it registered; clicks under way | `initialize`, the click, `createMeeting`, `handleMeetingStarted`, the post component | HTTP API, websocket, Redux store |
| log watcher (`build/pluginctl/logs.go`) | `oldestEntry`, the page | `watchLogs`, `checkOldestEntry`, `fetchLogs` | server logs API |
| deployment and manifest tools (`build/`) | none | one-shot commands | server API, files |

What makes it hard. Every HTTP request, command and hook call runs in a
goroutine of its own, and the KV store outlives the process. It has no
transaction over two calls, so every read-then-write is a race: the state's
get-and-delete, the token's get-decrypt-delete, the read-refresh-store of
`getValidToken`, the create-then-delete after insufficient scopes. A request
reads the configuration and the store handle several times, and both may change
in between. Google may act on a request and the answer be lost. The process may
end between any two steps. In the browser, a page may close, reload or change
its user while its request runs, its websocket breaks and comes back under
another id, and the answer comes from the plugin, from the Mattermost server in
its place, or from something on the way.

What makes each component correct:

- configuration: outside a hook call the store is that of the configuration
  shown; settings never go back; the last save takes effect; what overlapping
  calls leave behind is repaired by the next call.
- connect: a token lands only with the user who consented; a state is good for
  one connection; nobody is sent to Google with a state the plugin lacks.
- store: a token is deleted as unreadable only if the key really changed.
- disconnect: the connection stays gone until the user connects again.
- meetings: on the requester's own account, not where the settings forbid it,
  every request answered, no refresh token lost, at most one meeting per request.
- webapp: one meeting per click at most, its window in the session of the click
  and nowhere else, a word to every user whose page stays loaded and connected,
  the button only for whom it is meant, posts that can be joined from every page.
- log watcher: each entry once, in order, none left out.

`PROJECT.json` lists the hazards line by line ("hazards"), each with the
properties that would catch it.

## 2. The modules

```
Configuration  <-  ConnectFlow  <-  MeetingFlow  <-  MeetPlugin  <-  MeetPluginRefinement
      ^                                                                      | implements
   Overlap                            LogWatch         Webapp  ->  MeetingService
```

An arrow is an EXTENDS, except the one that says "implements": there
`MeetPluginRefinement` has `INSTANCE MeetingService WITH ...`. The proofs are in
`ConfigurationProofs`, `OverlapProofs`, `MeetPluginTypeProofs`,
`MeetPluginProofs`, `MeetPluginSettingsProofs`, `MeetPluginRefinementProofs`,
`WebappProofs` and `LogWatchProofs`; the modules `MC...` hold the model values of the runs.

**Configuration.** A version is an index in `saves`, the settings ever saved.
`phase` is the life of the process: `down`, `loading` (the server runs the hook
before activation, with `p.client` nil), `activating` (`OnActivate`), `active`.
`hook[h]` is one call of `OnConfigurationChange`: `HookLoad` (or `HookLoadFails`,
an early return), `HookSetConfiguration`, `HookSetKVStore`; three steps because
two locks are taken one after the other. The site URL is read from the server on
each use, so it is a field of the latest save. `OAuthStore` is `getOAuthKVStore`.
Its reads of configuration, site and store are one step: a handle it returns is
always one that a single reading at some moment of the call would have returned,
given that one save does not both break and repair what is read.

**Overlap.** `Configuration` with more than one slot for hook calls, as when two
administrators save at once, and a history variable `trust` that tells whether
calls have overlapped and whether one has run alone to its end since.

**ConnectFlow.** `tokens[u]` is the KV entry of the user: the key it is encrypted
under and the token (grant and number of the refresh token). `states[s]` is the
KV entry of an OAuth state. `google[g]` is what Google knows of a grant and
`pages[s]` a consent page open in a browser; both are external and modelled by
what the plugin relies on: a code is honoured once and for the client ID it was
given to. One handler call occupies one slot of `connect`, `callback`,
`disconnect`, which is free again when the request is answered. `callback[c].key`
is the store handle of `api.go:161`, used at `api.go:179`. A request refused
before it changes anything takes no step.

**MeetingFlow.** `start[r]` is a request, from HTTP or from `/meet start`. Its `pc`
names the next call that others can see or disturb: `check_*` is
`IsUserConnected`, `admit` permission and restriction, `use_*` the first half of
`getValidToken`, `refresh` and `save` its second, `create` `createMeeting`,
`drop_*` the delete after insufficient scopes, `post` and `publish` the end. That
a token is about to expire is a free choice at the read. `spaces` are the Meet
spaces made so far.

**MeetPlugin.** `Next` is a step of any component, or `Stop`, which ends the
process: memory and requests go, the KV store, Google and the browsers stay.
`severed` is a history variable: how the user's last confirmed disconnect found
things.

**MeetingService.** What the server side promises to whoever starts a meeting,
without tokens, stores, settings and Google: a request is refused, or it makes
one meeting, posts it and announces it, in this order, and is then answered
"ok"; it may fail at each step, and what it did stays. `serving` says that a
process takes requests and `ready` that the plugin is fully configured; both
change at any time.

**MeetPluginRefinement.** The mapping from `MeetPlugin`: all that a request does
before it has a space, fourteen steps, is the stage "asked" of the service;
`post` is "made" and `publish` is "posted"; a meeting is a space without its
account.

**Webapp.** It extends `MeetingService`, so that what is shown of the browser is
shown of the browser next to ANY server side that keeps the service's promise,
and the refinement says that the plugin's does. A tab is a place for pages,
which open (for any user), load the plugin (`asking`, `answered`, `loaded`,
after `initialize`) and close. `conn` is the connection id in the Redux store:
it outlives its connection until the next one is up, and it is what a click
sends (`index.tsx:42`). `click[r]` is the click behind request `r` of the
service, from `sent` over `served` and `answered` to `settled`; it goes on
without its page. `Responses` are the kinds of answer that `createMeeting`
(`client.ts`) and the click tell apart; `Notice` is what they make of each.
`inbox[p]` holds events on their way to a tab; `opened` is the history of windows
opened. What the server says of a click is a post: that of the meeting is kept in
the channel, that of a refusal (`api.go:104`) goes out over the websocket alone.
`click[r].word` follows it: `Ephemeral` sends it if the page is connected,
`ShowPost` brings it there, and a connection that ends loses it (`Dropped`). Actions of the service are taken together with what the browser sees of
them: `Made` with `Make`, `Announced` with `Announce`, and so on.

**LogWatch.** An entry is its position in the log, and page `n` is counted from
the end of the log as it is when the page is fetched. `FetchPage` is one round of
the inner loop of `watchLogs`; the log grows between any two. The filter
compares timestamps of the server, cut to the millisecond, with the clock of the
command (`logs.go:148`). They do not go back within the log, so that the filter cuts
it at some entry: `since` is that place, any one within the first page's length,
before or after what is in the log when the command starts.

Operators marked "Mutant" are not part of any specification. Each stands before
the definition it is a faulty variant of and shows that a property would notice
the fault (`PROJECT.json`, "mutants").

## 3. The runs

| run | question | instance |
|---|---|---|
| `configuration` | do store, configuration and saves keep together? | 4 settings (two keys, two clients, one invalid, one without site), 4 saves, hook calls one at a time, failing loads and activations, restarts |
| `overlap` | what if two hook calls overlap, is a save missed, and does the last one take effect? | 3 settings (two keys, none), 4 saves, two calls at once, failing loads and activations, restarts, fair |
| `connect` | do tokens land with the right user, states work once? | 2 users, 2 states, 2 grants, 2 connects, 2 callbacks, 1 disconnect; KV calls fail, answers are lost, restarts; nobody is connected to begin with, and the settings are usable and stay |
| `meeting` | is a meeting on its requester's account, is the valid refresh token kept, does a quiet disconnect last? | 2 users, both entry points, a connect, a callback and a disconnect next to a request, 3 refresh tokens, revocation, failing calls to Google and the server |
| `answered` | does the server side implement the service, does every request get its answer, does the restriction hold, is a token purged without need? | 2 requests at once in a public channel, 2 spaces, settings that switch key and restriction together, every kind of failure, restarts, fair |
| `webapp` | do buttons, windows, notices and posts come to whom they should? | 1 tab for 2 users in turn, one of them an administrator, 2 connections, requests that are lost or answered by others, stops, closing and reloading, fair |
| `logs` | is a log that fits on a page, or one written to often, printed once, in order and whole? | pages of 3, 6 entries of the plugin and of others, the filter cuts the log at any of the first 4 places, fair |

Runs that end in a counterexample, each a disagreement of the code with a line of
its documentation or comments (see "findings" in `PROJECT.json`):

| run | the documentation | what the code does |
|---|---|---|
| `disconnect_lasts` | "removes your saved Google connection" | a refresh under way stores the token again after the confirmation |
| `unusable` | "the plugin asks the user to reconnect" | a refresh refused for good, the access withdrawn or the refresh token replaced, is answered "Failed to create meeting" |
| `drop` | "Token has old scopes - delete it" | the delete hits the token of a reconnect made meanwhile |
| `connected` | "Successfully connected to Google!" | the token is stored under a key that was replaced during the exchange; or a refresh under way puts the old account back |
| `logs_again` | "Every log entry is new" | once the log is longer than a page, entries already printed count as new |

`connected` stops at the first way to break it, a callback beside a change of the
key. With `Settings <- Steady` it comes to the second, a refresh beside a reconnect
(`google.go:199`); and `[][SparedByRequests]_vars` by itself also fails at the delete
of a blob that could not be read (`oauth.go:92`), which hits a token stored since.

Seen while modelling, and without a run of their own: a user's button stays away
until the page is loaded anew when the plugin is configured later (`index.tsx:33`);
while the websocket is down, a click that is refused ends without a word, since the
refusal, the connect link among them, goes out over the websocket alone
(`api.go:104`) and the page says nothing on "handled" (`index.tsx:44`); "Unable to reach the server"
may be said of a request that made a meeting (`client.ts:48`); a meeting whose post
fails stays at Google, and the user who tries again makes another
(`meeting.go:82`); more than a page of new entries between two ticks are printed in
bursts, newest page first (`logs.go:92`).

Bounds. All are constants: `MaxSaves`, `MaxSpaces`, `MaxRefresh`, `MaxConns`,
`MaxMeetings`, `MaxLog`, `MaxPrinted`, and the sizes of the slots. Slots are
reused without limit, so behaviours are long; only the number of requests AT ONCE
is small. Two of a kind show any race of two; the properties relate at most two
requests, two keys or two versions. One state or grant more than the users need
shows a reconnect next to an old token. `MaxSpaces` and `MaxMeetings` limit
requests when they begin, never in the middle: two in flight may both make one.
Two connections are what it takes for an id to be stale and for another to be
up in its place, and one tab is enough to pass from one user to the other; a
second tab adds sessions that are never the click's, which the proofs cover.
Pages of three entries and six entries in all let the log outgrow its page by one
page. Runs on the server side and of the log watcher have `CHECK_DEADLOCK FALSE`
because a bounded instance ends quietly: no save left to make, no state left to
draw, no space left, no entry left to write. The run `webapp` checks for
deadlock: settings can always change.

Fairness. `ConfFairness`: the server delivers the hook calls it owes and a call
begun is run to its end. `FairSpec`: a request's goroutine is scheduled and each of
its calls returns, with an answer or an error; calls to Google end after 30
seconds (`google.go:33`). `ServiceFairness` is what of this the service promises:
each request comes to its end; the run `answered` checks that `FairSpec` implements
it. `WebFairness`: a page runs `initialize` to its end, a fetch settles one way or
another, a websocket that is up delivers, and the service works. `LogFairSpec`: the
ticker ticks and the server answers. Nothing is assumed of users, administrators,
Google's answers, restarts or of connections coming back.

Assumptions about what is outside the repository: the server calls the hook for
one save at a time (except in `Overlap`) and, for a save made while the plugin is
not active, once it is; an OAuth state is never drawn twice; users consent in the
browser that asked; a websocket connection id is never used again, and an event
scoped to one goes to that connection alone; the Mattermost server answers in the
place of a plugin that is down; the log is paged from its newest entry and each
page lists its oldest first; no two log entries are the same text.

## 4. What is proved

Every theorem holds for any number of users, requests, states, grants, keys,
settings and saves, with every kind of failure, restarts at any point, and
slots reused without limit. The bounds of the runs play no part in them.

| theorem | what it says | also needs |
|---|---|---|
| `ConfTypeCorrect` | types of `Configuration`, hook calls overlapping or not | |
| `StoreMatchesConfigurationCorrect` | outside a hook call the store is the configuration's | `SerialHooks` |
| `SettingsNeverGoBackCorrect` | settings go forward, except by a restart | `SerialHooks` |
| `TypeCorrect` | types of `MeetPlugin` | |
| `ConnectTypeCorrect` | types of `ConnectFlow` within `MeetPlugin` | |
| `ImplementsConfiguration` | `MeetPlugin` implements `Configuration` | |
| `OwnAccountCorrect` | a saved token is of a consent of the same user | |
| `MeetingOwnAccountCorrect` | a meeting is on the account of who asked | |
| `StateOneShotCorrect` | a spent state does not reach the exchange | |
| `PageBackedCorrect` | an open consent page has its state in the store | |
| `RefreshTokenKeptCorrect` | the saved refresh token is the one Google honours | `OneRefresh`, `RefreshLands` |
| `QuietDisconnectCorrect` | a disconnect nobody raced with lasts | |
| `NoNeedlessPurgeCorrect` | a purge needs two different keys | |
| `RestrictionRespectedCorrect` | no meeting where it was forbidden all along | `SerialHooks` |
| `LoneCallRepairsCorrect` | a hook call that runs alone repairs what overlapping ones left | |
| `NoSaveMissedCorrect` | when no hook call is owed the plugin has the settings saved last | |
| `ImplementsServiceCorrect` | `MeetPlugin` implements `MeetingService` | |
| `WebTypeCorrect` | types of `Webapp` | |
| `ButtonEarnedCorrect` | who is no administrator has the button only of a configured plugin | |
| `OpensInOwnSessionCorrect` | a window opens for who asked, in the session of the click | |
| `OncePerClickCorrect` | a click makes at most one meeting | |
| `EveryClickToldCorrect` | in a page that stays loaded and connected no click ends without a word | |
| `NoEventLostCorrect` | the event of a meeting is on its way to the page of the click, or has opened its window | |
| `UsesService` | `Webapp` does to the service only what `MeetingService` allows for | |
| `LogTypeCorrect` | types of `LogWatch` | |
| `PrintsShortLogCorrect` | a log that fits on a page is printed once, in order, without a gap | |
| `PrintsBusyLogCorrect` | so is a log of any length while the newest page reaches back far enough | |
| `TickCatchesUpCorrect` | the first page of a tick leaves nothing of a short log unprinted | |

Assumptions. `ConfigurationAssumption`, `ConnectAssumption`,
`MeetingAssumption`, `WebAssumption` and `LogAssumption` say that the sets of
settings, keys and slots and the bounds are what their comments say and that `None`
is none of the values it stands in for; TLC evaluates them in the runs. `SerialHooks` says that there is one slot for hook calls: the
server's listener makes them one at a time. Where it is cited it is needed: two
overlapping calls can load in one order and set in the other.

**Configuration** (`ConfigurationProofs`). Neither property is inductive. `ConfInv`
adds where calls may be in flight in each phase (`CallsInPhase`), that a loaded
version is not older than the configuration and that a call which has set the
configuration has the version it set in hand (`CallsAhead`), and that since
activation's own call ended, store and configuration differ only inside a call
(`StoreSettled`).

**Types** (`MeetPluginTypeProofs`). A request's fields are `None` until it comes to
them, so that types alone are not inductive: `Save` would store under a `None` key.
`TypeInv` adds what a request has in hand by how far it has come
(`ConnectsFilled`, `CallbacksFilled`, `DisconnectsFilled`, `StartsFilled`) and that
a stored token is of a grant Google gave (`TokensBacked`), for which a step may
neither take a grant away nor change its owner (`GrantsKept`).

**Accounts** (`MeetPluginProofs`). Whose account a token belongs to is a chain of
facts, each a conjunct of `LinkInv` and each needed by the next. A connect uses its
state alone (`ConnectsApart`); the page under the state names the user the state
was stored for (`PagesTrue`); a spent state is gone from the store for good
(`SpentGone`), so no second user can be found under it; the grant names the
page it came from (`GrantsTrue`); the callback's user is the grant's owner
(`CallbacksTrue`); so is the user the token lies under (`OwnAccount`), the request
that holds it (`StartsTrue`) and the meeting (`MeetingOwnAccount`). All of it rests on the assumption that
users consent in the browser that asked, since the callback itself is not
authenticated (`api.go:26`). Lemma
`MeetingMoves` states once what a step of a request can do to it; the later
proofs use it in place of the fifteen actions.

**Refresh tokens.** Without hypotheses `RefreshTokenKept` is false of the code, which
does not lock a user's token: two requests that refresh at once both spend the
same refresh token, and a refresh that Google carried out and the plugin failed to
save leaves a dead one. `RefreshTokenKeptCorrect` says that these two are the
only ways to lose it. `OneRefresh`: a user's refreshes do not overlap (other
requests, callbacks and disconnects of the user may come at any point of
one). `RefreshLands`: a refresh that fails has not been carried out, and one that
succeeds is saved. `RefreshInv` adds that every token is of a grant whose code was
exchanged (`TokensUsed`), that what a callback is about to store is the first token
of a grant nobody else has a token of (`FirstTokens`, `CodesFresh`), and that a
request refreshes with the present refresh token (`RefreshesCurrent`). The run
`meeting` keeps to both hypotheses by its bounds, one slot for requests and none of
the faults "lost", "kv" and "stop"; what becomes of a user whose refresh token is
lost is the run `unusable`.

**Disconnect.** `QuietInv`: after a quiet disconnect no request holds a token it
could save, and no callback is under way. A request that begins later finds none.

**Settings** (`MeetPluginSettingsProofs`). `KeysInv`: every store handle, of the
plugin, of a callback or of a request, and every blob is of a key that was saved at
some time; two that differ are two saved keys. `AdmitInv`: a request belongs to an
active process whose configuration has not gone back since it came, so the
configuration that admitted it lies in the request's window.

**Overlapping calls** (`OverlapProofs`). Of `ConfInv` only what does not need calls
to come one at a time is left (`CallsInv`). `TornByOverlap`: calls that overlap are
known to, and only in an active plugin. `LoneCallInForce`: as long as they do not,
a call that has set the configuration has set the one in force; hence the store
it sets last is that configuration's (`TrustedStore`), whatever was there before.
`LatestInv` stands on top of it: while the server owes no call, a call that runs
alone has loaded the latest settings (`FreshCalls`), since each save owes a call
and the load comes after it; so the one in force when it ends is the latest
(`LatestInForce`), overlapping calls before it or not.

**The service** (`MeetPluginRefinementProofs`). The initial states map to initial
states, and each step of `MeetPlugin` to a step of `MeetingService` or to none; the
type invariant is what it takes, since it says what a request has in hand at each
stage (`TypeInv`). `Hidden` stands for the fourteen steps the service does not see:
a request goes on unseen or is refused.

**The browser** (`WebappProofs`). One invariant, `WebInv`, carries the first four theorems.
`PageInv`: what a page knows of the configuration was so since it was loaded.
`ClickInv`: a request that is still "asked" has made nothing, and what the service
answers it has posted. The session of a window is the long way: a click's
connection is one its tab has had, and while the tab still has it, the page is
the click's user's (`Own`); ids only grow, so that no later page has it again
(`TabsKept`, `OwnKept`); the meeting keeps the connection of its click
(`MeetingSessions`), the event goes to tabs that match it (`RecipientsOwn`) and is
lost when they change (`InboxSessions`). `NoEventLost` has an invariant of its own
above it, `WatchInv`: whatever a click or a meeting relies on is a page that is
loaded and connected under the very id the click sent (`Rely`). That makes the page
one of the recipients when the meeting is announced, and ready to open the window
when the event comes. `EveryClickTold` stands on both: `ToldInv` says that an answer
"ok" or "handled" on its way to a page that stayed comes after a post (`Told`). The
post of a refusal finds that page connected by `Rely`, and no step loses it but
one after which the page has not stayed (`DroppedEnds`). The proof takes the service's actions as
they are in `MeetingService`, so it holds of the plugin by
`ImplementsServiceCorrect`; and `UsesService` shows that browsers and network add no
behaviour to the service's own.

**The log watcher** (`LogWatchProofs`). A page is the wanted entries of an interval in
increasing order; that there is such a sequence is shown by its inverse, the rank
of an entry (`Rank`, `InOrderExists`), without induction. `CheckedProperties` says
what `checkOldestEntry` makes of a page. `OrderInv`: what is printed is in order and
without a gap up to its last entry, and `oldestEntry` is that entry. A tick
keeps it (`TickPrints`) if the page it begins with reaches back to `oldestEntry`,
which a log that fits on a page always does (`ShortSuffices`) and a longer one
does while the plugin writes often enough (`FirstPageSuffices`); otherwise it is
false, as the run `logs_again` shows.

Only model-checked: `SettingsTakeEffect`, `StartAnswered`, `ImplementsFairService`,
`OwnWindowOpens`, `JoinShown` and `ShortLogPrinted`, liveness under fairness, which
the prover does not do, and the counterexamples. What is safety in four of these
is proved: `NoSaveMissed`, `ImplementsService`, `NoEventLost` and `TickCatchesUp`.

## 5. Not modelled

- Icons, styles, link attributes (`icons.tsx`, `external_link.tsx`, most of
  `post_type_google_meet.tsx`), titles and topics, the wording of posts, the header
  of the settings page (`updateSettingsHeader`): layout, without state.
- `webpack.config.js`, `babel.config.js`, the manifest tool and the deployment
  commands of `pluginctl`: one-shot sequences at build time with nothing beside
  them; so is the one-page command `logs`.
- Access tokens that expire between their read and their use (the five-minute
  buffer of `google.go:194` against 30-second calls), and a token cut short in the
  KV store (the unmarshal branch of `GetOAuth2Token` does what the decryption branch
  does).
- Routing, authentication headers and CSRF tokens: every request that reaches a
  handler is taken to be the user's own.

What could follow: an abstract specification of connecting (link, unlink, per user)
and the refinement of it by `MeetPlugin`; the cleaning up of an unreadable token
when its user tries again, as a liveness property; several requests that refresh
at once, against the refresh token kept.
