SPECIFICATION Spec
\* Nobody has to use the application or the browser.
CHECK_DEADLOCK FALSE
INVARIANTS TypesOK FollowsSource ActsAsShown LosesNothing OnceInTime ReadsRight
PROPERTIES StepsKeep
