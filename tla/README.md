# Verification of the agency backend

The backend is a NestJS service over PostgreSQL (TypeORM), with RabbitMQ between
the HTTP process and the mail it sends, and an uploads directory for parcel
images and shape files. This directory holds TLA+ models of its stateful parts,
the TLC configurations that check them on small instances, and TLAPS proofs of
what matters most about each of them, for every value of the constants. Paths below are relative to the
repository; `auth.service.ts` is `src/modules/auth/services/auth.service.ts`,
and so on.

## 1. The system

| component | state | operations | interacts with |
|---|---|---|---|
| **AuthService** with its guards (`auth.service.ts`, `jwt.strategy.ts`, `local.strategy.ts`, user and token entities) | tables `users` (password hash, tokenVersion, isActive, emailVerified), `email_verification_tokens`, `password_reset_tokens`; tokens held by clients | register, resend-verification, verify-email, login, refresh, logout, change-password, forgot-password, reset-password | EmailService, from the request (resend, forgot) or in the background (register, welcome) |
| **EmailService / EmailQueueService** | none | three `client.emit`s; EmailService swallows an error | the broker |
| **RabbitMQ `email-queue`, EmailQueueConsumer** (in the HTTP process and in `email-worker`) | the durable queue, unacknowledged messages | deliver, send over SMTP, ack, nack without requeue; redelivery when a channel closes | SMTP, and through the user's mailbox AuthService again |
| **ParcelsService** with the uploads of ParcelsController | table `parcels`, files in `uploads/parcels` | create, update, softDelete; find reads only | Geometry files |
| **Geometry files** (`geometry-file.util.ts`) | one cached promise of the shapefile parser | parse a zip, shp, kml, kmz or geojson and combine its geometries | xmldom, toGeoJSON, shpjs, JSON; called by ParcelsService |
| **RolesService** | tables `roles`, `permissions`, `role_permissions` | seed, create, update, grant, create and delete permissions | users name a role |
| interceptor, exception filter, templates, logger, configuration, migrations | none at run time | format one response, mail or line | |

What is hard about it:

- **Interleaving.** A handler is a sequence of awaits without a transaction.
  Every pair of statements of a request can have another request in between:
  read-check-write of tokens and users (`auth.service.ts:203-237`, `331-367`),
  `tokenVersion` read in one statement and incremented in another (`186-191`),
  the whole-entity `save` (`299`, `parcels.service.ts:280`).
- **Stale saves.** `save` compares the entity with a fresh SELECT and writes the
  columns that differ, so a column somebody else changed since the handler read
  it is written back.
- **Partial failure.** `Promise.all` of two saves (`auth.service.ts:234`, `359`),
  mail handed over after the row is committed, files unlinked before the save.
- **Unreliable delivery.** At-least-once from the broker, at-most-once from the
  nack without requeue; two processes consume one queue.
- **Staying alive.** A prefetch of one: an unsettled message blocks a consumer. One
  promise of the shapefile parser is awaited by every request that needs it, and
  stays rejected once it is (`geometry-file.util.ts:411-451`).
- **Case by case.** What is combined, skipped or tried another way when a file holds
  several features, bad placemarks or several documents.

What makes each part correct: an account is verified only through a mail that
reached it, and never un-verified; a revoked session stays revoked, a session
matches the current password; one-time tokens are retired and used once; a
pending user is never left without a link that works; the queue neither loses
nor acknowledges what was not sent, and drains; a parcel's columns, geometry,
measures and files fit together, an image leaves it on request only and together
with its file, and a deleted parcel stays deleted; the features read from a geometry
file are all in its geometry, once and as they were; permission names are unique and grants change as asked.

`PROJECT.json` lists every hazard at its line with the properties that would
catch it going wrong.

## 2. The modules

| module | what it is |
|---|---|
| `AccountLifecycle` | abstract: absent -> pending -> verified, sessions only for the verified |
| `MailDelivery` | abstract: new -> accepted -> done or dropped, done only after a mail went out |
| `AuthService` | the endpoints of AuthController, one action per database statement |
| `EmailQueue` | the mail pipeline |
| `AuthSystem` | AuthService composed with EmailQueue through the mailbox |
| `Parcels` | ParcelsService and the files of its uploads |
| `GeometryFiles` | the geometry of an uploaded file, and the parser all requests share |
| `Roles` | permissions and the grants of roles |
| `AuthServiceProofs`, `AuthSerialProofs` | theorems about AuthService: any number of requests, and one at a time |
| `EmailQueueProofs`, `AuthSystemProofs` | theorems about the pipeline, and about service and pipeline together |
| `ParcelsProofs`, `GeometryFilesProofs`, `RolesProofs` | theorems about these components |
| `SequenceLemmas` | what flattening and concatenating sequences gives, and induction over sets by least counterexample |
| `MCAuthService`, `MCAuthSystem`, `MCParcels`, `MCRoles` | symmetry sets for TLC |
| `MCGeometryFiles` | the files TLC tries |

### AuthService

`users`, `ott` (both token tables, told apart by `kind`), `issued` (token pairs
clients hold), `outbox` (mails the broker took) are the persistent state. `req`
has one record per slot of `Handlers`: a request in flight, `at` the statement it
executes next, with the locals that outlive an await: `row`, the user row as read,
`t` the token, `pw` the new password, `cols` the columns `save` decided to write,
`todo` what is left of a `Promise.all`.

| endpoint | actions in order |
|---|---|
| register | `Register`, `InsertUser`, then in the background `InvalidateTokens`, `InsertToken`, `Publish` |
| resend-verification, forgot-password | `ResendVerification` / `ForgotPassword`, `InvalidateTokens`, `InsertToken`, `Publish` |
| verify-email, reset-password | `VerifyEmail` / `ResetPassword` (the SELECT), then `BurnToken` when expired or verified already, else `SaveDiff`, `SaveWrite` and `SaveToken` in any order, then `Publish` of the welcome mail |
| login | `ValidateUser`, `Login` |
| refresh | `RefreshTokens`, `RotateVersion`, `IssueRefreshed` |
| logout | `Authenticate` (the guard), `Logout` |
| change-password | `Authenticate`, `ChangePassword`, `SaveDiff`, `SaveWrite` |

`Faults` says what may go wrong: `abort` (a statement throws or the process dies
between awaits), `save` (one part of a `Promise.all` fails), `publish` (the broker
does not take a mail), `expiry` (a token's time passes).

Abstractions: a password stands for its hash; an account is an email, always spelt
the same way (register and the unique index compare it case-sensitively,
`auth.service.ts:46`, while login, resend and forgot-password look for
`LOWER(email)`, so two accounts could differ in case only); timestamps, names and roles are left out; a JWT does not expire by itself (an
expired one is refused before it reaches the model, which only removes behaviour);
an access and a refresh token with one version are one session. A refused request
changes nothing and is not an action, except where the refusal burns a token.
Client-side values that cannot be guessed (tokens, refresh tokens) come from
`outbox` and `issued`. `overlapped`, `redeemed` and a session's `password` are
history: no guard reads them.

### EmailQueue and AuthSystem

`queue`, `holding` (the message each consumer works on, whether `sendMail` has
resolved, whether its channel is the one it came over), `acked`, `dropped`, and
`mailed`, what SMTP delivered. `Deliver`, `SendMail`, `Ack`, `SendFails` are the
path of a handler of EmailQueueConsumer; a rejected `sendMail` may have delivered
all the same. `LoseChannel` requeues the message at its place; the process may be
dead or may go on and fail to acknowledge. The three handlers of the consumer are
the same statements over another template, and one set of actions stands for them.
`Messages` are publications: a
publisher that repeats an emit makes another message. `Fates` and `Delivered` map
the pipeline to `MailDelivery`: what became of each message, wherever it is.

`AuthSystem` emits the mail of token `t` as message `t` when `Publish` succeeds,
and lets a client follow a link only when `mailed[t] > 0`. Welcome mails go the
same way and nobody waits for them: they are left out of the queue.

### Parcels

`parcels` (rows), `stored`, `disk`, `doomed` (files whose unlinking is under way),
`req` (requests in flight). multer writes the uploads in `Receive`, before the
handler; `Create`/`Insert`, `Update`/`Apply`, `SoftDelete` are the handlers, which
end in `SaveDiff` and `SaveWrite`; `Refuse` and `Misdirected` leave the uploads
behind as the code does; `Unlink` is the unawaited deletion of replaced images.
`Arrive` is the controller; `Listed` is what findAll and findOne show. A request
may bring any number of images up to `MaxImages` (the controller takes five) and a
geometry file beside them, and `Bodies` is what clients send besides files.
An uploaded geometry file is parsed only when the body brings no geometry
(`ReadsFile`); what shape comes out is any of `Shapes`, and `drawn` remembers it.
An update that brings a geometry in its body keeps the URL of the old file, and a
create that brings both records the file it did not read: the code does so.
`name` stands for the scalar columns. `measures` is area and perimeter: the shape
they were computed from. Whether TypeORM counts equal arrays and geometries as
different is left open. File names are distinct (`Date.now()` plus the original
name; a collision within a millisecond is not modelled).

### GeometryFiles

A pure part and one piece of state. The pure part is the file as the code sees it,
step by step: `Open` knows the extension; `IsShapefile`, `FirstOf` and `Chosen`
are the look into an archive (the shapefile first, then the first kml, then the
first json, and no json in a kmz); `Draw`, `ParseKmlManually` and `KmlData` turn
placemarks into features and fall back to toGeoJSON; `Extract` and `Combine` make
one geometry of the features (`Present`, the loop that keeps what is there, is a
function on sequences, because TLC, which evaluates ENABLED for the fairness,
computes a function once and an operator every time it is mentioned). What the libraries return is part of the file, as
input: the value JSON.parse, shpjs and toGeoJSON give (`Data`) and the placemarks
xmldom finds (`Kml`). A coordinates list is a model value. As in the code, only the
first coordinates node of a placemark is read, so the holes of a polygon and all
but one part of a MultiGeometry are lost. The test for a `parsererror` element
(`geometry-file.util.ts:140-143`) has no case of its own: xmldom throws instead of
making one. A plain kml file that xmldom cannot read is answered with an error that
is no BadRequestException (`Failed`), which inside an archive is `Refused`. A feature
may be a collection; collections inside collections are not among the inputs
(`Featured`).

The state is `shapefileParserPromise` and the request in each slot of `Handlers`:
`LoadShapefileParser` is the test and the assignment of the cached promise, which
no await separates; `ImportSettles` the import; `ParseShapefile` the rest of the
request after its await; `Parse` every file that needs no import; `Restart` another
process. `imports` and `told` are history.

### Roles

`permissions` (id to name), `granted` (the table `role_permissions`), `req`.
`CreatePermission`/`InsertPermission` and `DeletePermission`/`RemovePermission` are
SELECT and statement of the permission endpoints; `AddPermissionToRole`,
`FindPermission` and `UpdateRole` read, `SaveDiff` and `SaveWrite` are `save`, which
writes the difference between the list of the entity and the table in one
transaction and is refused by the keys of the junction table. The roles are the
two that `onModuleInit` seeds before the server listens. They are the only names
createRole and deleteRole accept: the first refuses them because they exist, the
second because they are defaults, so neither changes anything and neither is an
action. Descriptions are left out.

## 3. The runs

All run with `tlc -config <run>.cfg <module>`.

| run | question | bounds |
|---|---|---|
| `auth_sessions` | with two requests in flight, what do revocation and password changes guarantee? `TypeOK`, `SessionsHoldCurrentPassword`, `RevokedStayRevoked` | one verified account, two passwords, three rotations before the last request starts, one reset token; aborts, failed saves and lost mails |
| `auth_serial` | do the documented promises hold one request at a time? `EverySessionHoldsCurrentPassword`, `ResetTokenSingleUse`, `RevocationIsFinal`, `RefreshReturnsLiveSession` | one account from registration on, all endpoints, three tokens, expiry |
| `queue` | does the pipeline keep, send and settle messages? `QueueTypeOK`, `AckedWasMailed`, `DuplicateOnlyAfterRedelivery`, `EventuallySettled`, `ImplementsMailDelivery` | three messages, two consumers, two lost channels, failing SMTP |
| `system_links` | does a working link always remain? `PendingHasLiveLink`, `ResetHasLiveLink`, `OutstandingTokensBounded`, `RegisteredGetsMail` | two requests, three tokens, one consumer, one lost channel, SMTP works, no fault |
| `system_lifecycle` | is AccountLifecycle implemented end to end, and does a dead link do nothing? `SystemImplementsLifecycle`, `ImplementsLifecycle`, `WelcomeMeansVerified`, `DeadLinksDoNothing` | all endpoints, two requests, two tokens, every fault, failing SMTP, no lost channel |
| `parcels` | do rows, measures and files fit together? `ParcelsTypeOK`, `MeasuresFitGeometry`, `ImagesOnDisk`, `PartialUpdates`, `ImagesLeaveWithFiles`, `GeometryFollowsFile` | one parcel, two files, two images in a request, two shapes, two requests, five bodies (`FewBodies`), failed saves and crashes |
| `geometry` | is all that a file draws in its geometry, and does one import serve all requests? `GeometryTypeOK`, `PartsPreserved`, `PlacemarksKept`, `ArchiveReadsLikeDocument`, `OneParserPerProcess`, `EveryFileAnswered` | some nine hundred files: up to three features, two placemarks, three archive entries; a second request for the parser; failing imports, restarts |
| `roles` | what do grants, role updates and deletions in flight leave? `RolesTypeOK`, `PermissionNamesUnique`, `GrantsAsAsked` | two roles, two permissions, two names, three requests |
| `auth_logout_races`, `auth_reset_races` | the promises of `auth_serial` with two requests in flight: violated | one account, two passwords |
| `system_mail_dropped` | does every registration get its mail when one SMTP call fails? violated | one account |
| `parcels_undelete` | does a deleted parcel stay deleted? violated | one parcel |

Why the bounds are enough. Every race in this code is between two requests on one
row, so two slots and one account produce it; accounts do not share state (the
proofs, which have no bound, confirm this for AuthService). Three versions let a
session be issued, revoked and pass two later versions, which is what a write of an
old version needs to bring it back. In GeometryFiles the slots share nothing but the
promise, so the second one needs only the files that reach for it; `Combine` looks
at the set of types and at neighbours, which two or three features exhaust, and
`Chosen` at what lies before and beside an entry, which three entries do. Three
tokens with two slots let a token be retired while two others are being made. Three
messages are more than two consumers hold. Two files and two shapes tell old from
new, and let a request bring two images, or an image and a geometry file, or replace
one by one; a body carries a name, with or without a geometry, or a geometry and the
flag, with the text `false`, which the code takes like `true`. A second parcel would take the run past ten million
states, and that one parcel does not touch the files of another is part of what
`ImagesStayOnDisk` proves. These bounds are in `parcels.cfg` and `MCParcels`: the
theorems have none of them. `MaxTokens` and `MaxVersion` stop the model, so the auth
and system runs do not check deadlock; `queue` may settle every message, and in
`roles` ids run out. `parcels` never stops: uploads keep being refused and processes
die.

Symmetry is used where the members are alike (passwords, slots, consumers, files,
shapes, roles, permissions) and never in a run with a liveness property.

### Fairness

`queue`: weak fairness of every consumer. The broker delivers to a consumer with
a free prefetch slot, and `sendMail` settles, because nodemailer has timeouts;
`SendFails` is one of the ways to settle, so nothing assumes that a mail is sent.
`system_links`: the same, and weak fairness of each request in flight: a statement
sent to the database returns, and a handler does not wait for anything else.
Clients are under no obligation: no fairness on arrivals or on following a link.
`RegisteredGetsMail` therefore needs SMTP to work and no fault, which is how
`system_links` is set; `system_mail_dropped` is the same with one failing call.

`geometry`: weak fairness of each request in flight and of the import, which read
files and load a module; none on arrivals or restarts.

### Findings

1. `auth_logout_races`: `save` writes back a `tokenVersion` computed before a
   refresh and a logout incremented it; the session the logout revoked is live
   again (`auth.service.ts:299`).
2. `auth_reset_races`: `used` is tested on a row read before the token is marked;
   one reset token sets two passwords (`auth.service.ts:341`).
3. `system_mail_dropped`: a mail whose SMTP call fails is rejected without requeue
   and nothing sends it again (`email-queue.consumer.ts:73`).
4. `parcels_undelete`: an update that read a parcel before it was deleted writes
   `deletedAt = null` back (`parcels.service.ts:280`).

Seen with these models and not listed as findings of their own: of two refreshes
with one token in flight, one returns a pair that is dead on arrival
(`RefreshReturnsLiveSession` fails with two slots); updateRole, which has no
permissions to set, removes a permission granted while it was in flight
(`GrantsAsAsked` fails without its exception for overlapping saves); two password
changes in flight write the same version, so a session of the overwritten password
survives (the cause of 1; it is why `SessionsHoldCurrentPassword` excepts
`overlapped` accounts); a verification whose user save fails after its token save
leaves a pending account without a link until it asks for another
(`PendingHasLiveLink` fails with the fault `save`); resend-verification answers
"Verification email resent successfully" (`auth.messages.ts:17`) also when the emit
failed and no mail is on its way, because EmailService swallows the error
(`email.service.ts:38`; `Publish` with the fault `publish`); two updates that append
images lose the images of one; the text `false` sent as deleteOldImage is converted
by `Boolean(value)` to `true` (`Coerced`) and the images go, while
`update-parcel.dto.ts:8` says "When true" and `parcels.controller.ts:226` "Use
deleteOldImage=true to replace existing images": `ImagesLeaveWithFiles` counts any
text as the flag and would fail if it asked for `true`.

## 4. The proofs

Every theorem below is `Spec => ...` for any values of the constants that satisfy
the assumptions its module names; the runs evaluate these assumptions on their
instances. They ask little: `None` and `NoMessage` are no data, the bounds are
numbers, the faults and the workload are among those modelled, the slots of
AuthService are finitely many (`HandlersAssumption`), the uploads of GeometryFiles
are files, the bodies of Parcels are request bodies. A theorem that needs more of the constants, of the clients or of the
schedule says so as a hypothesis: `OneSlot`, `NoAbort`, `ResetsComplete`,
`NothingFails`, `[]Undisturbed`.

Every safety property that a passing run checks is stated by a theorem, and so is
every property a run finds violated except the liveness one, under the hypothesis that
the counterexample breaks.

### AuthService, any number of requests in flight and every fault

| theorem | statement | inductive invariant |
|---|---|---|
| `TypeCorrect` | `[]TypeOK` | `TypeInv` |
| `LifecycleImplemented` | `ImplementsLifecycle` | `AccountInv` |
| `CurrentPassword` | `[]SessionsHoldCurrentPassword` | `SessionInv` |
| `RevocationLasts` | `RevokedStayRevoked` | `SessionInv` |
| `FewTokensUsable` | `[]OutstandingTokensBounded` | `TokenInv` |
| `DeadLinksAreHarmless` | `DeadLinksDoNothing` | `OwnedInv`, with `AccountInv` |

*Types.* `TypeOK` is not inductive: a slot at `publish` must hold a token and a
slot at `save` a password. `TypeInv` adds what each stage knows (`SlotTyped`) and
that a token in the table has a user.

*Accounts.* The refinement needs that no step un-verifies an account. The danger
is `save`, which writes the row it read. `AccountInv` therefore carries
`isActive = emailVerified`, that a reset token exists only for a verified account
(the guard of forgotPassword), that a password save holds a verified row, and that
a verification writes both columns or meets a verified row. `Grows` states what no
step takes back and lets the invariant of one slot survive the steps of another.

*Sessions.* `UpTo(u, v, p)`: a session at version v is not ahead of the row, and
level with it only under the row's password. `SessionInv` extends it to the
sessions requests are about to hand out and to the versions saves were computed
from, for accounts no save of which has overlapped another change of the version.
`VersionsGrow` is the step property behind both theorems.

*Tokens.* The bound counts the usable tokens of a kind together with the slots
between retiring and inserting (`Minting`): each insertion trades one for the
other. A token that is used or expired never becomes usable again
(`TokensOnlyDie`), and a request that redeems one has found it in the table, as a
token of its account and its kind (`OwnedInv`); so while no token of an account is
usable and no request has found one, only a new token can bring such a request
about, and no other step verifies the account or resets its password.

### AuthService, one request at a time

The documented promises that fail when requests overlap (findings 1 and 2, and the
dead pair of overlapping refreshes) hold without exception when they do not: `OneSlot` says that there is one slot at most.

| theorem | statement | inductive invariant |
|---|---|---|
| `SerialSessions` | `OneSlot => []EverySessionHoldsCurrentPassword` | `FreshInv` |
| `SerialRevocation` | `OneSlot => RevocationIsFinal` | `FreshInv` |
| `SerialRefreshes` | `OneSlot /\ NoAbort => RefreshReturnsLiveSession` | `RefreshInv` |
| `SerialResets` | `OneSlot /\ ResetsComplete => []ResetTokenSingleUse` | `OnceInv` |

`FreshInv`: the entity a save has still to write carries the version of the row,
so no save overlaps another change, and the theorems about any number of requests
lose their exception. `RefreshInv`: between accepting a refresh token and answering,
the row changes only by the handler's own increment; `NoAbort` excludes a request
cut short between the increment and the answer. `OnceInv` ties the number of times a token was redeemed to
its being used or about to be marked so. `ResetsComplete` excludes a failed save
and a request cut short: a password that is written while the token is not marked
lets the token be used again, also one request at a time.

### The pipeline

| theorem | statement | inductive invariant |
|---|---|---|
| `QueueTypeCorrect` | `[]QueueTypeOK` | itself |
| `AckedWereMailed` | `[]AckedWasMailed` | `AckInv`: a consumer past its await has sent the mail of its message |
| `NoOtherDuplicates` | `[]DuplicateOnlyAfterRedelivery` | `OnceInv`: until the broker takes a message back its mail is sent at most once, and not before its consumer is past the await |
| `DeliveryImplemented` | `ImplementsMailDelivery` | `PlaceInv`: no duplicate in the queue, no message with two consumers, the places of a message apart; `AckInv` and `HeldInv`: a consumer works on messages the broker knows, its channel lost or not |

That no message is lost or settled twice is the refinement. `PublishedGrows` is its
core: only `Emit` changes the set of messages
the broker knows. A consumer that lost its channel may still send a mail, of a
message that may be settled by now: a step of `MailDelivery` that changes no status.

### Service and pipeline together

| theorem | statement | inductive invariant |
|---|---|---|
| `WelcomeAfterBothSaves` | `[]WelcomeMeansVerified` | `RedeemInv` |
| `LifecycleEndToEnd` | `SystemImplementsLifecycle` | `AccountsInv /\ DeliveryInv` |
| `PendingKeepsLink` | `NothingFails => []PendingHasLiveLink` | these and `LinkInv` |
| `ResetKeepsLink` | `NothingFails => []ResetHasLiveLink` | these and `LinkInv` |

A step of the system is, for the accounts, a step of AuthService
(`SystemStepsServe`), so the invariants of `AuthServiceProofs` carry over.
`RedeemInv` says what a request knows between finding a token and answering: as
long as no part of its `Promise.all` has failed, a part that is done has had its
effect. `DeliveryInv` says that whoever redeems a verification token found it in the
mailbox; with it every step maps to a step of `AccountLifecycle` in which a mail
counts when SMTP delivers it.

The link theorems are about `Faults = {}` and an SMTP server that takes every mail;
channels may be lost as often as one likes. `LinkInv` has three parts: without faults
a request burns only a token that has served its purpose (`CalmInv`); what the broker
took it keeps until SMTP has it (`Handover`); and an account that is owed a link got
what the link is for, or is being served by a request, or has a usable token whose
mail the pipeline or the mailbox has (`ProvidedInv`). When nothing is in flight only
the last is left.

### Parcels, GeometryFiles, Roles

| theorem | statement | inductive invariant |
|---|---|---|
| `ParcelsTypeCorrect` | `[]ParcelsTypeOK` | `ParcelsInv` |
| `UpdatesArePartial` | `PartialUpdates` | `SaveInv` |
| `GeometryComesWithFile` | `GeometryFollowsFile` | `SaveInv` |
| `ImagesLeaveTogether` | `ImagesLeaveWithFiles` | `SaveInv`, `GoneInv` |
| `MeasuresFit` | `[]MeasuresFitGeometry` | itself, with `SaveInv` |
| `ImagesStayOnDisk` | `[]ImagesOnDisk` | itself, with `OwnInv` |
| `DeletionHolds` | `[]Undisturbed => DeletionIsFinal` | `SaveInv`, `DeleteInv` |
| `SerialDeletion` | `OneSlot => DeletionIsFinal` | these and `AllFresh` |
| `ParserLoadedOnce` | `[]OneParserPerProcess` | `ParserInv`: the count of imports and what was told agree with the promise |
| `GeometryTyped` | `[]GeometryTypeOK` | `RequestInv`, `ParserInv` |
| `NothingLostInCombining` | `[]PartsPreserved` | `RequestInv` |
| `WellFormedPlacemarksKept` | `[]PlacemarksKept` | `RequestInv` |
| `ArchivesReadLikeDocuments` | `[]ArchiveReadsLikeDocument` | `RequestInv` |
| `RolesTypeCorrect` | `[]RolesTypeOK` | `RolesInv` |
| `NamesStayUnique` | `[]PermissionNamesUnique` | itself |
| `GrantsOnlyAsAsked` | `GrantsAsAsked` | `GrantInv` |

`SaveInv`: a request that has read the latest row will leave an outcome in which
only what was asked has changed, the measures are those of a new geometry, a new
file comes with the shape found in it, and images leave only on request. A save by
a request that has not read the latest either changes nothing or makes the parcel
`overlapped`, which the properties except. `OwnInv` says whose the images are: an
upload belongs to the request that brought it until it is saved, and a file that
is named by a row, or might be by a request about it, is named by no other parcel;
so what one parcel dooms is missed by no other. `GoneInv`: while a request is about
to replace the images of a row nobody has changed since it read it, those still on
disk are doomed; so when the save takes their names out of the row, no file stays
behind. `DeleteInv`: what a request that
deletes is about to write deletes. `DeletionHolds` says that finding 4 has one cause:
as long as the saves of no parcel overlap (`Undisturbed`), an update, which reads and
writes deleted rows like others, does not bring one back. `AllFresh` is why saves
served one at a time do not overlap. `GrantInv`: a save by a request
that has read the latest grants of its role deletes none and inserts at most the
permission it is to add.

The theorems about geometry files are about files of any size: any number of
features of any types and of collections one level deep, of placemarks and of archive
entries. `RequestInv` says what a request carries: a well-formed file until the
answer, and then the answer that the pure part gives for it, so each property becomes
a lemma about the pure part. Those rest on what `FlattenSeq` computes, for which the
library has no theorem. `SequenceLemmas` proves it by induction over the length. The
library's induction theorems take an operator as parameter and cannot be used, so
`SetInduction` states induction for a set of numbers and is proved by taking the least
number outside it (`LeastNumber`, from the well-foundedness of `<`); a lemma then
names the set of lengths it holds for. `Combine` looks at the set of types, and its
cases are proved one by one.

### Only model-checked

All liveness (`EventuallySettled`, `RegisteredGetsMail`, `EveryFileAnswered`), which
the prover does not cover, nor ENABLED.

## 5. Not modelled

- The response interceptor, the exception filter, mail templates, logger and
  configuration: they keep no state and format one response, mail or line.
- The migrations: no script of the repository runs them, and the application
  synchronizes its schema from the entities (`config/ormconfig.ts:14`).
- Authorisation of parcels and roles endpoints beyond the JWT guard; expiry of JWTs;
  `lastLogin`, which login returns to clients, and other timestamps, which no guard
  reads; filtering, paging and sorting of findAll, which change nothing.
- Numbers: areas, coordinates and projections; a version does not overflow.
- TypeORM, PostgreSQL, RabbitMQ, multer, SMTP and the parsing libraries beyond what
  the code uses of them (marked external in the map, or input of a model).

## 6. Plan

Done: AccountLifecycle, MailDelivery, AuthService, EmailQueue, AuthSystem, Parcels,
GeometryFiles and Roles, with the proofs above. What is left:

- that the mail of the composed system, too, implements `MailDelivery`;
- the serial counterpart of `GrantsAsAsked`, `MeasuresFitGeometry` and the other
  properties with an exception for overlapping saves: without it, one request at a
  time;
- `GeometryFiles` inside `Parcels`, so that `drawn` is what `Combine` makes of the
  file instead of any shape; each is checked alone today.
