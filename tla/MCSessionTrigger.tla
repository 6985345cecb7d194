--------------------------- MODULE MCSessionTrigger ---------------------------
EXTENDS SessionTrigger

\* The order of the code's deadlines: output settles sooner in a program than
\* at the prompt, sooner on a prompt-like line, and before the bounded wait.
MCTier ==
  [InProgram |-> [Prompt |-> 1, Other |-> 1],
   PromptLine |-> [Prompt |-> 1, Other |-> 2]]

MCMaxWait == [InProgram |-> 2, PromptLine |-> 2]
===============================================================================
