---------------------------- MODULE GraphQLExecutor ----------------------------
(***************************************************************************)
(* The execution of one GraphQL query, with the dataloader of its request. *)
(* Root fields run concurrently; so do the elements that marketSummaries   *)
(* or marketSummary returns, of which each has a priceHistory that calls   *)
(* Load.  An element is named after that call; the root field priceHistory *)
(* has none.  A null in a field that the schema requires makes the         *)
(* enclosing object null.  The scalar fields are never null and left out,  *)
(* as are the points of a history.  The middleware always injects a        *)
(* dataloader.                                                             *)
(***************************************************************************)
EXTENDS Dataloader

CONSTANTS
  Fields,     \* root fields of the query
  Nullable,   \* those that may be null: marketSummary
  ParentOf    \* root field that returns each element

Elements(f) == {c \in Calls : ParentOf[c] = f}

ASSUME ExecutorAssumption ==
  Nullable \subseteq Fields /\ ParentOf \in [Calls -> Fields] /\ Calls \cap Fields = {}

VARIABLES
  fpc,        \* where each root field is
  errors,     \* paths of the errors recorded so far
  response    \* data of the response

executorVars == <<fpc, errors, response>>
graphqlVars == <<loaderVars, executorVars>>
-----------------------------------------------------------------------------
ExecutorInit ==
  /\ LoaderInit
  /\ fpc = [f \in Fields |-> "resolving"]
  /\ errors = {} /\ response = "none"

\* The resolver of the field asks the query service, which answers or fails.
Resolve(f) ==
  /\ fpc[f] = "resolving"
  /\ \/ fpc' = [fpc EXCEPT ![f] = "marshalling"] /\ UNCHANGED errors
     \/ fpc' = [fpc EXCEPT ![f] = "null"] /\ errors' = errors \cup {f}
  /\ UNCHANGED <<loaderVars, response>>

\* ResolveField, when Load has returned: an error is recorded.
CompleteElement(c) ==
  errors' = IF lpc'[c] = "returned" /\ answer'[c] # "points" THEN errors \cup {c} ELSE errors

\* The goroutine of an element: its resolver calls Load, which returns at once or waits.
Element(c) ==
  /\ fpc[ParentOf[c]] = "marshalling"
  /\ LoadCached(c) \/ LoadListens(c) \/ Select(c)
  /\ CompleteElement(c)
  /\ UNCHANGED <<fpc, response>>

Complete(c) == lpc[c] = "returned"

\* The null in place of its history makes the element null.
IsNull(c) == Complete(c) /\ answer[c] # "points"

\* All elements are there: MarshalSliceConcurrently has waited for them.
FinishField(f) ==
  /\ fpc[f] = "marshalling" /\ \A c \in Elements(f) : Complete(c)
  /\ fpc' = [fpc EXCEPT ![f] = IF \E c \in Elements(f) : IsNull(c) THEN "null" ELSE "value"]
  /\ UNCHANGED <<loaderVars, errors, response>>

\* A null counts as RequiredNull wherever it occurs.
RequiredAnyway(f) == f \in Fields

\* Null is an invalid value of marketSummaries and priceHistory, but not of marketSummary.
Required(f) == f \notin Nullable

\* The first required null decides the response.
RespondAtFirstNull ==
  /\ response = "none"
  /\ \/ (\A f \in Fields : fpc[f] = "value") /\ response' = "data"
     \/ (\E f \in Fields : Required(f) /\ fpc[f] = "null") /\ response' = "null"
  /\ UNCHANGED <<loaderVars, fpc, errors>>

\* _Query has waited for all fields.
Respond ==
  /\ response = "none" /\ \A f \in Fields : fpc[f] \in {"value", "null"}
  /\ response' = IF \E f \in Fields : Required(f) /\ fpc[f] = "null" THEN "null" ELSE "data"
  /\ UNCHANGED <<loaderVars, fpc, errors>>

Execute(f) == Resolve(f) \/ FinishField(f)

Run ==
  \/ \E f \in Fields : Execute(f)
  \/ \E c \in Calls : Element(c) \/ (Dispatch(c) /\ UNCHANGED executorVars)
  \/ Respond

GraphQLNext == Run \/ (CancelRequest /\ UNCHANGED executorVars)

GraphQLSpec == ExecutorInit /\ [][GraphQLNext]_graphqlVars

\* Some goroutine that can run does; the sleep ends and every query has a timeout.
FairGraphQLSpec == GraphQLSpec /\ WF_graphqlVars(Run)
-----------------------------------------------------------------------------
Failed(c) == answer[c] \in {"error", "cancelled"}

\* Types, and: a field has its value after its elements, the response after the fields.
ExecutorTypeOK ==
  /\ fpc \in [Fields -> {"resolving", "marshalling", "value", "null"}]
  /\ errors \subseteq Calls \cup Fields /\ response \in {"none", "data", "null"}
  /\ \A c \in Calls :
       /\ lpc[c] # "ready" => fpc[ParentOf[c]] # "resolving" /\ ParentOf[c] \notin errors
       /\ fpc[ParentOf[c]] = "value" => Complete(c) /\ ~IsNull(c)
  /\ response # "none" => \A f \in Fields : fpc[f] \in {"value", "null"}

\* The response says what the resolvers returned, in whatever order they did: there is one
\* error for each field whose resolver failed and for each history that could not be
\* loaded, also if its list is null anyway; an element without its history takes its list
\* or its summary with it; a failed list or root history takes all data with it, a failed
\* summary only itself; and every history shown comes from a query that succeeded.
ResponseFollowsResolvers ==
  response # "none" =>
    LET broken == {f \in Fields : f \in errors \/ \E c \in Elements(f) : Failed(c)} IN
    /\ errors \cap Calls = {c \in Calls : Failed(c)}
    /\ {f \in Fields : fpc[f] = "null"} = broken
    /\ response = "null" <=> \E f \in broken : f \notin Nullable
    /\ \A c \in Calls : ParentOf[c] \notin broken => answer[c] = "points" /\ want[c] \in good

\* The response does not leave work behind: unless the request was cancelled, no dispatch
\* is asleep or has keys to query or listeners to serve when the response is complete.
QuietAfterResponse ==
  response # "none" /\ ~done =>
    \A d \in Calls : dpc[d] # "sleeping" /\ todo[d] = {} /\ group[d] = {} /\ lis[d] = {}

\* Every query is answered, whatever fails and whether or not it is cancelled.
QueryAnswered == <>(response # "none")
================================================================================
