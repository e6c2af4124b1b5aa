------------------------------- MODULE Board --------------------------------
(***************************************************************************)
(* The notice board, and the rights its posts give to the accounts.        *)
(* Requests share their slots with those of Accounts; an account that is   *)
(* deleted takes its posts and comments along.                             *)
(***************************************************************************)
EXTENDS Accounts

CONSTANT Posts  \* ids of posts

PostKinds == { "NOTICE", "MANUAL", "GENERAL" }
NoPost     == [category |-> "NONE", author |-> 0, comments |-> {}, made |-> "NONE"]
GonePost   == [NoPost EXCEPT !.category = "GONE"] \* an id is never used again

VARIABLES
  post,   \* board_posts with their comments; made (history): the role of who set the category
  moved   \* history: posts that changed their category while a request about them was under way

boardVars == << accountVars, post, moved >>

BoardInit == AccountsInit /\ post = [p \in Posts |-> NoPost] /\ moved = {}

-----------------------------------------------------------------------------
(* Rights.                                                                  *)
MayWrite(role, category) == IF category = "NOTICE" THEN role \in Managers ELSE role # "GUEST"

(* Mutant of MayComment: whoever may write may comment.                     *)
MayCommentAsWriter(role, p) == MayWrite(role, post[p].category)

MayComment(role, p) ==
  CASE post[p].category = "NOTICE" -> FALSE
    [] post[p].category = "MANUAL" -> role \in Managers
    [] OTHER                       -> role # "GUEST"

MayModify(role, who, author) == role \in Managers \/ author = who

-----------------------------------------------------------------------------
(* Requests. What they write comes with a later statement. The id of a new  *)
(* post is drawn.                                                           *)
There(p) == post[p].category \in PostKinds

AskPost(r, t, p, category) ==
  /\ Authenticated(t) /\ post[p] = NoPost /\ \A s \in Requests : ~(At(s, "post", "write") /\ req[s].n = p)
  /\ MayWrite(RoleOf(t), category)
  /\ Submit(r, t, "post", p, category)

(* A column whose new value is the one just read is not written.            *)
Change(p, category) == IF category = post[p].category THEN "NONE" ELSE category

(* Mutant of AskUpdate: the new category asks for no right of its own.      *)
AskUpdateFreely(r, t, p, category) ==
  /\ Authenticated(t) /\ There(p) /\ MayModify(RoleOf(t), account[t.n].who, post[p].author)
  /\ Submit(r, t, "update", p, Change(p, category))

AskUpdate(r, t, p, category) ==
  /\ Authenticated(t) /\ There(p) /\ MayModify(RoleOf(t), account[t.n].who, post[p].author)
  /\ category # "NONE" => MayWrite(RoleOf(t), category)
  /\ Submit(r, t, "update", p, Change(p, category))

AskRemove(r, t, p) ==
  /\ Authenticated(t) /\ There(p) /\ MayModify(RoleOf(t), account[t.n].who, post[p].author)
  /\ Submit(r, t, "remove", p, "NONE")

AskComment(r, t, p) ==
  /\ Authenticated(t) /\ There(p) /\ MayComment(RoleOf(t), p)
  /\ Submit(r, t, "comment", p, "NONE")

Same == UNCHANGED << account, throttleVars, tokens, hired, outages, retired >>

BoardAsk(r, t, p) ==
  /\ \/ \E c \in PostKinds : AskPost(r, t, p, c)
     \/ \E c \in PostKinds \cup {"NONE"} : AskUpdate(r, t, p, c)
     \/ AskRemove(r, t, p)
     \/ AskComment(r, t, p)
  /\ Same /\ UNCHANGED << post, moved >>

Alive(who) == \E n \in Numbers : account[n].who = who

(* An author who was deleted meanwhile breaks the foreign key.              *)
CreatePost(r) ==
  LET p == req[r].n IN
  /\ At(r, "post", "write") /\ End(r)
  /\ post' = IF ~Alive(req[r].self.who) THEN post
             ELSE [post EXCEPT ![p] = [category |-> req[r].arg, author |-> req[r].self.who,
                                       comments |-> {}, made |-> req[r].self.role]]
  /\ Same /\ UNCHANGED << asks, moved >>

Busy(r, p) == \E s \in Requests \ {r} : req[s].do \in {"update", "comment"} /\ req[s].n = p

(* Mutant of UpdatePost: a row that went meanwhile is written all the same.  *)
UpdatePostAnyhow(r) ==
  LET p == req[r].n
      category == IF req[r].arg = "NONE" THEN post[p].category ELSE req[r].arg
  IN
  /\ At(r, "update", "write") /\ End(r)
  /\ post' = [post EXCEPT ![p].category = category, ![p].made = IF category = post[p].category THEN @ ELSE req[r].self.role]
  /\ moved' = IF category # post[p].category /\ Busy(r, p) THEN moved \cup {p} ELSE moved
  /\ Same /\ UNCHANGED asks

UpdatePost(r) ==
  LET p == req[r].n
      category == IF req[r].arg = "NONE" THEN post[p].category ELSE req[r].arg
  IN
  /\ At(r, "update", "write") /\ End(r)
  /\ post' = IF ~There(p) THEN post
             ELSE [post EXCEPT ![p].category = category, ![p].made = IF category = post[p].category THEN @ ELSE req[r].self.role]
  /\ moved' = IF category # post[p].category /\ Busy(r, p) THEN moved \cup {p} ELSE moved
  /\ Same /\ UNCHANGED asks

RemovePost(r) ==
  /\ At(r, "remove", "write") /\ End(r)
  /\ post' = [post EXCEPT ![req[r].n] = GonePost]
  /\ Same /\ UNCHANGED << asks, moved >>

(* A comment remembers the category it was written under.                   *)
CreateComment(r) ==
  LET p == req[r].n IN
  /\ At(r, "comment", "write") /\ End(r)
  /\ post' = IF ~There(p) \/ ~Alive(req[r].self.who) THEN post
             ELSE [post EXCEPT ![p].comments = @ \cup {[author |-> req[r].self.who, rank |-> req[r].self.role, under |-> post[p].category]}]
  /\ Same /\ UNCHANGED << asks, moved >>

(* ON DELETE CASCADE.                                                       *)
Cascade ==
  LET gone(who) == \A n \in Numbers : account'[n].who # who IN
  post' = [p \in Posts |-> IF There(p) /\ gone(post[p].author) THEN GonePost
                           ELSE [post[p] EXCEPT !.comments = { c \in @ : ~gone(c.author) }]]

BoardNext ==
  \/ AccountsNext /\ Cascade /\ UNCHANGED moved
  \/ \E r \in Requests : \/ CreatePost(r) \/ UpdatePost(r) \/ RemovePost(r) \/ CreateComment(r)
                         \/ Ready(r) /\ \E t \in tokens, p \in Posts : BoardAsk(r, t, p)

BoardSpec ==
  /\ BoardInit /\ [][BoardNext]_boardVars
  /\ WF_boardVars((\E n \in Numbers : Expire(n)) /\ Cascade /\ UNCHANGED moved) \* Redis

-----------------------------------------------------------------------------
(* Properties *)

BoardTypeOK ==
  /\ AccountsTypeOK
  /\ \A p \in Posts : /\ post[p] \in {NoPost, GonePost} \/ (There(p) /\ post[p].author \in 1..hired)
                      /\ \A c \in post[p].comments : c.author \in 1..hired
  /\ moved \subseteq Posts

(* A notice was made one by somebody who was an administrator when asking,  *)
(* whatever happened to roles, authors and categories since.                *)
NoticeByAdmin == \A p \in Posts : post[p].category = "NOTICE" => post[p].made \in Managers

(* No comment came under a notice, and only administrators' under a request *)
(* to them, unless the post moved while somebody was commenting on it.      *)
CommentsAreAdmitted ==
  \A p \in Posts : \A c \in post[p].comments :
    \/ c.under # "NOTICE" /\ (c.under = "MANUAL" => c.rank \in Managers)
    \/ p \in moved

(* Nobody acts for another or beyond the role he had when asking.           *)
RightsHold ==
  /\ BoardTypeOK /\ GuessesAreBounded /\ TokenNamesItsHolder /\ RightsAreFresh
  /\ NoticeByAdmin /\ CommentsAreAdmitted

(* Whoever knows his password gets in: it is not replaced behind his back,  *)
(* and the throttle lets go of him.                                         *)
OwnersGetIn == ChosenStands /\ RefusedIsFreed
=============================================================================
