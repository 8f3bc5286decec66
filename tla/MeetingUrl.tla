------------------------------ MODULE MeetingUrl ------------------------------
(***************************************************************************)
(* From the meeting_url of a request to the address that the browser       *)
(* opens: parse_capture_url (src/app/url_parser.py, capture/telemost.py),  *)
(* which leaves a host and a room in the row, and _navigate_url            *)
(* (capture/browser.py), which makes an address of them.                   *)
(*                                                                         *)
(* A URL is a record of what urlparse finds in it: the segments of a path  *)
(* are what stands between its slashes, Empty between two that follow each *)
(* other.  A segment stands for all of its kind: "plain" has only letters, *)
(* digits and -._~ (tenant is another of these), "raw" has characters that *)
(* quote() writes as %XX, "escaped" is "raw" with that done, "twice" is    *)
(* "escaped" with its % done again.                                        *)
(***************************************************************************)
EXTENDS Integers, Sequences, SequencesExt

CONSTANT MaxSegments    \* bound: segments of a path

ASSUME UrlAssumption == MaxSegments \in Nat

Empty == ""    \* a name, since SMT has no empty string
Connectors == {"jitsi", "telemost"}
TelemostHosts == {"telemost.yandex.ru", "telemost.yandex.com"}
Segments == {Empty, "j", "private-join", "tenant", "plain", "raw", "escaped"}

Urls == [scheme : {"ftp", "http", "https"},
         host : {Empty, "meet.example.com"} \cup TelemostHosts,
         port : {Empty, "8443"},
         path : SeqOf(Segments, MaxSegments)]
NoUrl == [scheme |-> Empty, host |-> Empty, port |-> Empty, path |-> <<>>]

(* Where the segments are that are not empty, and three of them:           *)
(* parts[0], parts[1] and parts[-1].                                       *)
Named(path) == {i \in 1 .. Len(path) : path[i] # Empty}
FirstNamed(path) == path[Min(Named(path))]
SecondNamed(path) == path[Min(Named(path) \ {Min(Named(path))})]
LastNamed(path) == path[Max(Named(path))]

IsHttp(url) == url.scheme \in {"http", "https"}

-----------------------------------------------------------------------------
(* parse_meeting_url: path.strip("/"), and the last of its segments.       *)
ValidJitsi(url) == IsHttp(url) /\ url.host # Empty /\ Named(url.path) # {}

(* Mutant: a slash at the end of the path is not stripped.                 *)
UnstrippedRoom(url) == IF url.path = <<>> THEN Empty ELSE Last(url.path)

JitsiRoom(url) == LastNamed(url.path)

(* validate_telemost_meeting_url and telemost_meeting_id.                  *)
ValidTelemost(url) ==
  /\ IsHttp(url) /\ url.host \in TelemostHosts
  /\ Cardinality(Named(url.path)) >= 2 /\ FirstNamed(url.path) \in {"j", "private-join"}

TelemostId(url) == SecondNamed(url.path)

(* parse_capture_url.                                                      *)
Valid(connector, url) ==
  IF connector = "telemost" THEN ValidTelemost(url) ELSE ValidJitsi(url)

Row(connector, url) ==
  [host |-> url.host,
   room |-> IF connector = "telemost" THEN TelemostId(url) ELSE JitsiRoom(url)]

-----------------------------------------------------------------------------
(* quote().                                                                *)
Quote(s) == CASE s = "raw" -> "escaped" [] s = "escaped" -> "twice" [] OTHER -> s

(* build_meeting_url.                                                      *)
MeetingAddress(row) ==
  [scheme |-> "https", host |-> row.host, port |-> Empty, path |-> <<Quote(row.room)>>]

(* _guest_meeting_url.                                                     *)
GuestUrl(connector, row) ==
  IF connector = "telemost"
  THEN [scheme |-> "https", host |-> row.host, port |-> Empty, path |-> <<"j", row.room>>]
  ELSE MeetingAddress(row)

(* build_private_join_url.                                                 *)
PrivateJoinUrl(url) ==
  [scheme |-> "https", host |-> "telemost.yandex.ru", port |-> Empty,
   path |-> <<"private-join", TelemostId(url)>>]

NavigateUrl(connector, row) ==
  IF connector = "telemost" THEN PrivateJoinUrl(GuestUrl(connector, row))
  ELSE GuestUrl(connector, row)

-----------------------------------------------------------------------------
(* The meeting behind an address, as its site takes it.  A browser writes  *)
(* a character of "raw" as %XX, so both name the same room.                *)
Unquote(s) == CASE s = "escaped" -> "raw" [] s = "twice" -> "escaped" [] OTHER -> s

Meeting(connector, url) ==
  IF connector = "telemost"
  THEN [server |-> "telemost", room |-> Unquote(url.path[2])]
  ELSE [server |-> <<url.host, url.port>>, room |-> Unquote(Last(url.path))]

(* The forms of docs/en/connectors.md: https://<host>/<room>, where the    *)
(* last path segment is the room, and the two guest links.  A Jitsi room   *)
(* that is escaped already is left out: quote() escapes it again, and the  *)
(* bot goes to another room.                                               *)
Documented(connector, url) ==
  /\ url.scheme = "https" /\ url.host # Empty /\ url.port = Empty /\ url.path # <<>>
  /\ IF connector = "telemost"
     THEN /\ url.host = "telemost.yandex.ru"
          /\ Len(url.path) = 2 /\ url.path[1] \in {"j", "private-join"} /\ url.path[2] # Empty
     ELSE Last(url.path) \notin {Empty, "escaped"}

Opened(connector, url) == NavigateUrl(connector, Row(connector, url))

(* A bot sent to a documented address comes to the meeting it names, after *)
(* two parsers have taken the address apart and two builders have put one  *)
(* together.                                                               *)
ReachesMeeting(connector, url) ==
  Documented(connector, url) =>
    /\ Valid(connector, url)
    /\ Meeting(connector, Opened(connector, url)) = Meeting(connector, url)

(* Whatever is accepted leads to a page of the connector with a room in    *)
(* it, so that the second parse, of the address made from the row, cannot  *)
(* fail when the task has its slot.                                        *)
OpensMeetingPage(connector, url) ==
  Valid(connector, url) =>
    /\ Valid(connector, GuestUrl(connector, Row(connector, url)))
    /\ Meeting(connector, Opened(connector, url)).room # Empty
    /\ connector = "telemost" => Opened(connector, url).host \in TelemostHosts
===============================================================================
