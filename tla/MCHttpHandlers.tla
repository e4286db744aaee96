--------------------------- MODULE MCHttpHandlers ---------------------------
(* Instance of HttpHandlers for TLC: files that are empty, end with a full   *)
(* chunk or a partial one; bodies of none to three pieces, with and without  *)
(* the options, and one whose port does not fit in 16 bits.                  *)
EXTENDS HttpHandlers

Car(host, port) == [host |-> host, port |-> port, ssid |-> "REMOTE", password |-> "secret"]
Body(car, ppp) == [email |-> NULL, carConnection |-> car, pppConnection |-> ppp]

MCBodies == {
  NULL,
  Body(NULL, NULL),
  Body(Car(NULL, NULL), NULL),
  Body(Car("10.0.0.1", 65536 + 8080), [user |-> NULL, password |-> "p", apn |-> NULL])}
=============================================================================
