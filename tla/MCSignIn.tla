------------------------------ MODULE MCSignIn ------------------------------
(* The browser of each tab, and how it may begin. *)
EXTENDS SignIn, TLC

CONSTANTS b1, t1, t2, i1, i2, i3, x, y, a1, a2, a3, NoMail

OneBrowser == (t1 :> b1 @@ t2 :> b1)

Mails(f1, f2, f3) == (i1 :> f1 @@ i2 :> f2 @@ i3 :> f3)
UserRow(i, e, k) == [sub |-> i, mail |-> e, kind |-> k]

\* Somebody is, or no longer is, invited and has never signed in.
Newcomer(s) ==
  [mail |-> Mails(x, NoMail, NoMail), account |-> (a1 :> None @@ a2 :> None @@ a3 :> None),
   role |-> {}, invitation |-> (x :> s @@ y :> "none")]

\* A manager who came by an invitation.
Manager ==
  [mail |-> Mails(x, NoMail, NoMail),
   account |-> (a1 :> UserRow(i1, x, "known") @@ a2 :> None @@ a3 :> None),
   role |-> {a1}, invitation |-> (x :> "retrieved" @@ y :> "none")]

\* One of two identities is gone; the other has taken over its address, and
\* may have signed in since. A third one may come.
TakenOver(signedIn) ==
  [mail |-> IF signedIn THEN Mails(x, NoMail, NoMail) ELSE Mails(NoMail, x, NoMail),
   account |-> (a1 :> UserRow(i3, x, "regular")
                @@ a2 :> UserRow(i2, IF signedIn THEN x ELSE y, "regular")
                @@ a3 :> None),
   role |-> {}, invitation |-> (x :> "invited" @@ y :> "none")]

Cases == {Newcomer("invited"), Newcomer("canceled"), Manager, TakenOver(FALSE), TakenOver(TRUE)}

=============================================================================
