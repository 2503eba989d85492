\* One user's dialog: buttons of old flows, questions, reordered events.  It ends
\* when the user does nothing more.
SPECIFICATION DialogSpec
CONSTANTS
    Users = {u1}
    Kinds = {"menu", "new", "house", "category", "open", "ask", "text"}
    MaxEvents = 4
    MaxTime = 2
INVARIANTS CreatedFromOneFlow AnswersTheQuestion ObeyedInOrder
CHECK_DEADLOCK FALSE
