------------------------------ MODULE Content ------------------------------
(***************************************************************************)
(* A content item with its approval, and media assets, whose bytes live in *)
(* an object store outside the transaction (modules/content/service.py,    *)
(* router.py).                                                             *)
(***************************************************************************)
EXTENDS Session, Naturals

CONSTANTS
    Bodies,       \* texts of the item
    MaxItemVersion,   \* bound: versions of the item
    Assets        \* bound: media assets

ASSUME ContentAssumption ==
    MaxItemVersion \in Nat /\ "item" \notin Assets

VARIABLES
    item,       \* content_items: the row, or None
    asset,      \* media_assets: none, uploaded (with a size) or presigned (size 0)
    stored,     \* the objects in the store
    published   \* history: the versions learners could read, with their text

contentRows == <<item, asset, stored, published>>

ItemRow == [version : 1 .. MaxItemVersion, status : {"draft", "approved"}, body : Bodies]
AssetRow == {"uploaded", "presigned"}

ASSUME ContentRowAssumption == None \notin ItemRow /\ None \notin AssetRow

ContentTypeOK ==
    /\ item \in ItemRow \cup {None}
    /\ asset \in [Assets -> AssetRow \cup {None}]
    /\ stored \subseteq Assets
    /\ published \subseteq [version : 1 .. MaxItemVersion, body : Bodies]
    /\ item # None /\ item.status = "approved" =>
          [version |-> item.version, body |-> item.body] \in published

-----------------------------------------------------------------------------
create_content_item(body, version) ==
    [version |-> version, status |-> "draft", body |-> body]

MutantKeepVersion(row, body) == [row EXCEPT !.body = body, !.status = "draft"]

\* Editing an approved item makes a draft of the next version.
update_content_item(row, body) ==
    IF row.status = "approved"
    THEN [version |-> row.version + 1, status |-> "draft", body |-> body]
    ELSE [row EXCEPT !.body = body]

set_approval(row, approved) ==
    [row EXCEPT !.status = IF approved THEN "approved" ELSE "draft"]

-----------------------------------------------------------------------------
ContentInit ==
    /\ SessionInit
    /\ item = None
    /\ asset = [a \in Assets |-> None]
    /\ stored = {}
    /\ published = {}

BeginItem(q, row) ==
    /\ row.version <= MaxItemVersion
    /\ Begin(q, [key |-> "item", loaded |-> item, set |-> row])
    /\ UNCHANGED contentRows

\* The author chooses the version an item starts with.
CreateItem(q, body, version) ==
    item = None /\ BeginItem(q, create_content_item(body, version))

UpdateItem(q, body) == item # None /\ BeginItem(q, update_content_item(item, body))

ApproveItem(q) == item # None /\ BeginItem(q, set_approval(item, TRUE))

CommitItem(q) ==
    /\ End(q)
    /\ req[q].key = "item"
    /\ req[q].loaded = None => item = None      \* one item is followed
    /\ item' = IF item = None THEN req[q].set ELSE Flush(item, req[q].loaded, req[q].set)
    /\ published' = IF item'.status # "approved" THEN published
                    ELSE published \cup {[version |-> item'.version, body |-> item'.body]}
    /\ UNCHANGED <<asset, stored>>

Unused(a) == asset[a] = None /\ \A o \in Requests : req[o] # None => req[o].key # a

MutantUploadLater(q, a) ==
    /\ Unused(a)
    /\ Begin(q, [key |-> a, set |-> "uploaded"])
    /\ UNCHANGED contentRows

\* The bytes go to the store first; the row appears when the request commits.
UploadMedia(q, a) ==
    /\ Unused(a)
    /\ Begin(q, [key |-> a, set |-> "uploaded"])
    /\ stored' = stored \cup {a}
    /\ UNCHANGED <<item, asset, published>>

PresignMedia(q, a) ==
    /\ Unused(a)
    /\ Begin(q, [key |-> a, set |-> "presigned"])
    /\ UNCHANGED contentRows

CommitMedia(q) ==
    /\ End(q)
    /\ req[q].key \in Assets
    /\ asset' = [asset EXCEPT ![req[q].key] = req[q].set]
    /\ UNCHANGED <<item, stored, published>>

\* The client uses a presigned URL, or never does.
ClientPut(a) ==
    /\ asset[a] = "presigned"
    /\ stored' = stored \cup {a}
    /\ UNCHANGED <<session, item, asset, published>>

\* A rollback takes the row back, not the object.
AbortContent(q) == End(q) /\ UNCHANGED contentRows

ContentNext ==
    \/ \E q \in Requests :
          \/ \E body \in Bodies :
                \/ \E v \in 1 .. MaxItemVersion : CreateItem(q, body, v)
                \/ UpdateItem(q, body)
          \/ ApproveItem(q)
          \/ CommitItem(q)
          \/ \E a \in Assets : UploadMedia(q, a) \/ PresignMedia(q, a)
          \/ CommitMedia(q)
          \/ AbortContent(q)
    \/ \E a \in Assets : ClientPut(a)

ContentSpec == ContentInit /\ [][ContentNext]_<<session, contentRows>>
-----------------------------------------------------------------------------
\* The version of an approved item names one text for good (docs/07:28): a text
\* that learners could read never changes under its number, unless two requests
\* crossed on the item (service.py:174).
VersionNamesOneText ==
    "item" \notin crossed =>
        \A x, y \in published : x.version = y.version => x = y

\* An asset with a size has its bytes in the store, whatever requests fail
\* half-way (service.py:222): only presigned assets may be without.
UploadedIsStored ==
    \A a \in Assets : asset[a] = "uploaded" => a \in stored
=============================================================================
