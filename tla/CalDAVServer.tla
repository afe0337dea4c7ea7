---------------------------- MODULE CalDAVServer ----------------------------
(***************************************************************************)
(* The CalDAV server as Caldo sees it, in the form of the staging server   *)
(* that the repository runs its smoke tests against                        *)
(* (internal/stagecaldav/server.go): calendars that hold VTODO objects, a  *)
(* revision that counts every change, the change it was for every object   *)
(* that exists or that is gone.  An etag is the revision that wrote the    *)
(* object, a sync token or a ctag the revision of the whole server.        *)
(*                                                                         *)
(* Requests are operators on the record that is the server's state: an     *)
(* answer, and the state after it.  The server's mutex makes each request  *)
(* one step.                                                               *)
(***************************************************************************)
EXTENDS Vtodo, Naturals, FiniteSets

CONSTANTS Calendar,    \* calendar hrefs
          Href,        \* object hrefs
          CalendarOf,  \* the calendar whose href an object's href begins with
          UID,
          NoObject

Object == [uid : UID, vtodo : Content, etag : Nat]

ASSUME ServerAssumption == /\ CalendarOf \in [Href -> Calendar]
                           /\ NoObject \notin Object

ServerState == [calendars : SUBSET Calendar,
                objects : [Href -> Object \cup {NoObject}],
                deleted : [Href -> Nat],
                revision : Nat]

Exists(s, h) == s.objects[h] # NoObject

ObjectsOf(s, c) == {h \in Href : Exists(s, h) /\ CalendarOf[h] = c}

\* New: nothing but the given calendars.
EmptyServer(calendars) == [calendars |-> calendars,
                           objects |-> [h \in Href |-> NoObject],
                           deleted |-> [h \in Href |-> 0],
                           revision |-> 0]

-----------------------------------------------------------------------------
\* Every change takes the next revision, which becomes the object's etag;
\* what is stored is no longer among the deleted.
Stored(s, h, uid, vtodo) ==
    [s EXCEPT !.revision = @ + 1,
              !.objects[h] = [uid |-> uid, vtodo |-> vtodo, etag |-> s.revision + 1],
              !.deleted[h] = 0]

Dropped(s, h) == [s EXCEPT !.revision = @ + 1,
                           !.objects[h] = NoObject,
                           !.deleted[h] = s.revision + 1]

\* handlePut.  An If-Match of 0 is no If-Match.
PutAnswer(s, h, ifMatch) ==
    CASE ifMatch # 0 /\ ~Exists(s, h) -> "not_found"
      [] ifMatch # 0 /\ s.objects[h].etag # ifMatch -> "precondition_failed"
      [] CalendarOf[h] \notin s.calendars -> "conflict"
      [] OTHER -> "ok"

AfterPut(s, h, ifMatch, uid, vtodo) ==
    IF PutAnswer(s, h, ifMatch) = "ok" THEN Stored(s, h, uid, vtodo) ELSE s

\* handleDelete of an object.
DeleteAnswer(s, h, ifMatch) ==
    CASE ~Exists(s, h) -> "not_found"
      [] ifMatch # 0 /\ s.objects[h].etag # ifMatch -> "precondition_failed"
      [] OTHER -> "ok"

AfterDelete(s, h, ifMatch) ==
    IF DeleteAnswer(s, h, ifMatch) = "ok" THEN Dropped(s, h) ELSE s

-----------------------------------------------------------------------------
\* currentCTagLocked
CTag(s) == s.revision

\* writeVTODOETagList, and writeVTODOReport with the objects: an answer only
\* for a calendar that exists.
ETagList(s, c) == [h \in ObjectsOf(s, c) |-> s.objects[h].etag]

VTODOReport(s, c) == [h \in ObjectsOf(s, c) |-> s.objects[h]]

\* writeSyncCollectionReport: what has changed since the token, and what has
\* been deleted.
ReportedChanged(s, c, token) == {h \in ObjectsOf(s, c) : s.objects[h].etag > token}

ReportedDeleted(s, c, token) ==
    {h \in Href : /\ CalendarOf[h] = c /\ ~Exists(s, h) /\ s.deleted[h] > token}
=============================================================================
